---- MODULE Spec2Model ----
(***************************************************************************)
(* A model of the Cranelift instruction legalizer                           *)
(* (cranelift-codegen/src/legalizer/mod.rs): the driver legalize_function,  *)
(* the per-instruction step legalize_inst and the hand-written expansions   *)
(* expand_cond_trap, expand_br_table_jt, expand_br_table_conds,             *)
(* expand_select and expand_br_icmp, over a function made of a data-flow    *)
(* graph, a layout, jump tables, an encodings map and a control-flow graph. *)
(***************************************************************************)
EXTENDS Integers, Sequences, FiniteSets, TLC

VARIABLES
    func,       \* the ir::Function being legalized, or being built
    cfg,        \* the ControlFlowGraph handed to legalize_function
    isa,        \* the target: its flags
    pos,        \* the driver's FuncCursor position
    prev_pos,   \* the driver's saved position
    pc,         \* where legalize_function is
    entered,    \* history: the EBBs next_ebb() returned, in order
    queried,    \* history: the instructions handed to update_encoding
    failed,     \* history: instructions no action and no libcall could legalize
    last,       \* history: what the last driver step did
    steps,      \* history: the steps legalize_function has taken
    sw,         \* the frontend's Switch and the FunctionBuilder it emits to
    tr,         \* the filetests TestRunner, its worker threads and its client
    red,        \* bugpoint's reduce: its locals next to the function in func
    dbg,        \* the trace switch of dbg.rs: STATE, the environment, the calling threads
    gvn         \* do_simple_gvn: its locals next to the function in func

vars ==
    <<func, cfg, isa, pos, prev_pos, pc, entered, queried, failed, last, steps, sw, tr, red,
      dbg, gvn>>

(***************************************************************************)
(* Bounds of the model.                                                     *)
(***************************************************************************)
\* The most instructions in the body of the EBB the inputs vary.
MaxBody == 2
\* The most entries in the input's jump table.
MaxTable == 2

\* The most entries a Switch gets, the named key sets aside.
MaxEntries == 4

\* The most tests the client pushes onto a TestRunner itself.
MaxPushed == 1

\* The worker threads of a ConcurrentRunner.
Workers == 2
\* The widths, in bits, the model gives the 32-bit and the 64-bit types.
Bits32 == 4
Bits64 == 8

(***************************************************************************)
(* Sequences.                                                               *)
(***************************************************************************)
InsertAt(s, i, x) == SubSeq(s, 1, i - 1) \o <<x>> \o SubSeq(s, i, Len(s))

RemoveAt(s, i) == SubSeq(s, 1, i - 1) \o SubSeq(s, i + 1, Len(s))

IndexOf(s, x) == CHOOSE i \in 1..Len(s) : s[i] = x

Range(s) == {s[i] : i \in 1..Len(s)}

Reverse(s) == [i \in 1..Len(s) |-> s[Len(s) + 1 - i]]

\* The number of EBBs in the first n clusters of a cases tree.
RECURSIVE SumLen(_, _)
SumLen(tree, n) == IF n = 0 THEN 0 ELSE Len(tree[n].ebbs) + SumLen(tree, n - 1)

SeqsUpTo(S, n) == UNION {[1..k -> S] : k \in 0..n}

(***************************************************************************)
(* Entities. Instructions, EBBs, values and jump tables are numbered from 1 *)
(* in the order they are created; 0 stands for "none".                      *)
(***************************************************************************)
NoEbb == 0

NoTable == 0

\* InstructionData: one record shape for every instruction format.
InstData(opcode, ty, args, dest, table, imm, cond, code) ==
    [opcode |-> opcode, ty |-> ty, args |-> args, dest |-> dest,
     table |-> table, imm |-> imm, cond |-> cond, code |-> code]

Trapz(arg, code) == InstData("trapz", "", <<arg>>, NoEbb, NoTable, 0, "", code)
Trapnz(arg, code) == InstData("trapnz", "", <<arg>>, NoEbb, NoTable, 0, "", code)
Trap(code) == InstData("trap", "", <<>>, NoEbb, NoTable, 0, "", code)
Brz(arg, dest, args) == InstData("brz", "", <<arg>> \o args, dest, NoTable, 0, "", "")
Brnz(arg, dest, args) == InstData("brnz", "", <<arg>> \o args, dest, NoTable, 0, "", "")
Jump(dest, args) == InstData("jump", "", args, dest, NoTable, 0, "", "")
BrTable(arg, dest, table) == InstData("br_table", "", <<arg>>, dest, table, 0, "", "")
BrIcmp(cond, a, b, dest, args) == InstData("br_icmp", "", <<a, b>> \o args, dest, NoTable, 0, cond, "")
Icmp(cond, a, b) == InstData("icmp", "b1", <<a, b>>, NoEbb, NoTable, 0, cond, "")
IcmpImm(cond, a, imm) == InstData("icmp_imm", "b1", <<a>>, NoEbb, NoTable, imm, cond, "")
Select(ty, c, t, f) == InstData("select", ty, <<c, t, f>>, NoEbb, NoTable, 0, "", "")
JumpTableBase(ty, table) == InstData("jump_table_base", ty, <<>>, NoEbb, table, 0, "", "")
JumpTableEntry(ty, idx, base, size, table) ==
    InstData("jump_table_entry", ty, <<idx, base>>, NoEbb, table, size, "", "")
Iadd(ty, a, b) == InstData("iadd", ty, <<a, b>>, NoEbb, NoTable, 0, "", "")
IndirectJumpTableBr(addr, table) ==
    InstData("indirect_jump_table_br", "", <<addr>>, NoEbb, table, 0, "", "")
Iconst(ty, imm) == InstData("iconst", ty, <<>>, NoEbb, NoTable, imm, "", "")
IaddImm(ty, a, imm) == InstData("iadd_imm", ty, <<a>>, NoEbb, NoTable, imm, "", "")
Udiv(ty, a, b) == InstData("udiv", ty, <<a, b>>, NoEbb, NoTable, 0, "", "")
Popcnt(ty, a) == InstData("popcnt", ty, <<a>>, NoEbb, NoTable, 0, "", "")
Uextend(ty, a) == InstData("uextend", ty, <<a>>, NoEbb, NoTable, 0, "", "")
Call(ty, func_ref, args) == InstData("call", ty, args, NoEbb, NoTable, func_ref, "", "")
Return(args) == InstData("return", "", args, NoEbb, NoTable, 0, "", "")
\* The formats below keep their stack slot or memory flags in `code`, their
\* bits or offset in `imm`.
F32const(imm) == InstData("f32const", "f32", <<>>, NoEbb, NoTable, imm, "", "")
F64const(imm) == InstData("f64const", "f64", <<>>, NoEbb, NoTable, imm, "", "")
Bitcast(ty, x) == InstData("bitcast", ty, <<x>>, NoEbb, NoTable, 0, "", "")
StackLoad(ty, stack_slot, offset) ==
    InstData("stack_load", ty, <<>>, NoEbb, NoTable, offset, "", stack_slot)
StackAddr(ty, stack_slot, offset) ==
    InstData("stack_addr", ty, <<>>, NoEbb, NoTable, offset, "", stack_slot)
Load(ty, flags, p, offset) == InstData("load", ty, <<p>>, NoEbb, NoTable, offset, "", flags)

\* Opcode::is_terminator, is_branch, is_call, is_return.
is_terminator(op) ==
    op \in {"jump", "br_table", "indirect_jump_table_br", "trap", "return"}

is_branch(op) ==
    op \in {"jump", "brz", "brnz", "br_icmp", "br_table", "indirect_jump_table_br"}

is_call(op) == op = "call"

is_return(op) == op = "return"

\* The number of results an instruction of this opcode defines.
num_results(data) ==
    IF data.opcode \in {"icmp", "icmp_imm", "select", "jump_table_base",
                        "jump_table_entry", "iadd", "iconst", "iadd_imm",
                        "udiv", "popcnt", "uextend", "f32const", "f64const",
                        "bitcast", "stack_load", "stack_addr", "load"}
    THEN 1
    ELSE IF data.opcode = "call" /\ data.ty # "" THEN 1 ELSE 0

(***************************************************************************)
(* Data-flow graph.                                                         *)
(***************************************************************************)
ValueData(kind, owner, num, ty) == [kind |-> kind, owner |-> owner, num |-> num, ty |-> ty]

num_insts(f) == Len(f.insts)

num_ebbs(f) == Len(f.ebb_insts)

num_values(f) == Len(f.vals)

value_type(f, v) == f.vals[v].ty

first_result(f, inst) == f.results[inst][1]

has_results(f, inst) == f.results[inst] # <<>>

\* DataFlowGraph::make_ebb: a new EBB, not in the layout, without parameters.
make_ebb(f) ==
    [f EXCEPT !.ebb_insts = Append(@, <<>>), !.ebb_params = Append(@, <<>>)]

\* DataFlowGraph::attach_ebb_param: an existing value becomes the EBB's last parameter.
attach_ebb_param(f, ebb, v) ==
    [f EXCEPT !.ebb_params[ebb] = Append(@, v),
              !.vals[v] = ValueData("param", ebb, Len(f.ebb_params[ebb]) + 1, f.vals[v].ty)]

\* DataFlowGraph::clear_results: detach the results; the values stay allocated.
clear_results(f, inst) == [f EXCEPT !.results[inst] = <<>>]

\* DataFlowGraph::make_inst_results: one fresh value per result of the opcode.
make_inst_results(f, inst) ==
    IF num_results(f.insts[inst]) = 1
    THEN [f EXCEPT !.vals = Append(@, ValueData("result", inst, 1, f.insts[inst].ty)),
                   !.results[inst] = <<num_values(f) + 1>>]
    ELSE f

\* DataFlowGraph::make_inst and the builder's result creation.
make_inst(f, data) ==
    make_inst_results([f EXCEPT !.insts = Append(@, data), !.results = Append(@, <<>>)],
                      num_insts(f) + 1)

\* DataFlowGraph::replace(inst).<builder>: overwrite the instruction data in place;
\* results are created only when the instruction has none attached.
replace(f, inst, data) ==
    LET g == [f EXCEPT !.insts[inst] = data]
    IN IF has_results(g, inst) THEN g ELSE make_inst_results(g, inst)

(***************************************************************************)
(* Layout.                                                                  *)
(***************************************************************************)
is_ebb_inserted(f, ebb) == ebb \in Range(f.layout)

layout_insts(f) == UNION {Range(f.ebb_insts[e]) : e \in Range(f.layout)}

\* Layout::inst_ebb / Layout::pp_ebb.
inst_ebb(f, inst) ==
    IF \E e \in Range(f.layout) : inst \in Range(f.ebb_insts[e])
    THEN CHOOSE e \in Range(f.layout) : inst \in Range(f.ebb_insts[e])
    ELSE NoEbb

pp_ebb(f, inst) == inst_ebb(f, inst)

entry_block(f) == IF f.layout = <<>> THEN NoEbb ELSE f.layout[1]

layout_next_ebb(f, ebb) ==
    IF ebb \notin Range(f.layout) THEN NoEbb
    ELSE LET i == IndexOf(f.layout, ebb)
         IN IF i < Len(f.layout) THEN f.layout[i + 1] ELSE NoEbb

first_inst(f, ebb) == IF f.ebb_insts[ebb] = <<>> THEN 0 ELSE f.ebb_insts[ebb][1]

last_inst(f, ebb) ==
    IF f.ebb_insts[ebb] = <<>> THEN 0 ELSE f.ebb_insts[ebb][Len(f.ebb_insts[ebb])]

layout_next_inst(f, inst) ==
    LET s == f.ebb_insts[inst_ebb(f, inst)]
        i == IndexOf(s, inst)
    IN IF i < Len(s) THEN s[i + 1] ELSE 0

\* Layout::insert_inst: insert `inst` before `before`.
layout_insert_inst(f, inst, before) ==
    LET e == inst_ebb(f, before)
    IN [f EXCEPT !.ebb_insts[e] = InsertAt(@, IndexOf(@, before), inst)]

\* Layout::append_inst.
append_inst(f, inst, ebb) == [f EXCEPT !.ebb_insts[ebb] = Append(@, inst)]

\* Layout::remove_inst.
layout_remove_inst(f, inst) ==
    LET e == inst_ebb(f, inst)
    IN [f EXCEPT !.ebb_insts[e] = RemoveAt(@, IndexOf(@, inst))]

\* Layout::insert_ebb_after.
insert_ebb_after(f, new_ebb, after) ==
    [f EXCEPT !.layout = InsertAt(@, IndexOf(@, after) + 1, new_ebb)]

\* Layout::insert_ebb: insert `new_ebb` before `before`.
layout_insert_ebb(f, new_ebb, before) ==
    [f EXCEPT !.layout = InsertAt(@, IndexOf(@, before), new_ebb)]

\* Layout::append_ebb.
append_ebb(f, new_ebb) == [f EXCEPT !.layout = Append(@, new_ebb)]

\* Layout::split_ebb: `new_ebb` goes right after the EBB holding `before` and
\* takes `before` and every instruction after it.
split_ebb(f, new_ebb, before) ==
    LET old == inst_ebb(f, before)
        s == f.ebb_insts[old]
        i == IndexOf(s, before)
    IN [f EXCEPT !.layout = InsertAt(@, IndexOf(@, old) + 1, new_ebb),
                 !.ebb_insts[old] = SubSeq(s, 1, i - 1),
                 !.ebb_insts[new_ebb] = SubSeq(s, i, Len(s))]

(***************************************************************************)
(* Cursor. A FuncCursor is a function together with a position.             *)
(***************************************************************************)
Nowhere == [kind |-> "Nowhere", at |-> 0]

At(inst) == [kind |-> "At", at |-> inst]

Before(ebb) == [kind |-> "Before", at |-> ebb]

After(ebb) == [kind |-> "After", at |-> ebb]

\* FuncCursor::new.
FuncCursor(f) == [func |-> f, pos |-> Nowhere]

\* Cursor::current_ebb.
current_ebb(c) ==
    CASE c.pos.kind = "Nowhere" -> NoEbb
      [] c.pos.kind = "At" -> inst_ebb(c.func, c.pos.at)
      [] OTHER -> c.pos.at

\* Cursor::at_inst.
at_inst(c, inst) == [c EXCEPT !.pos = At(inst)]

\* Cursor::after_inst (goto_after_inst).
after_inst(c, inst) ==
    LET next == layout_next_inst(c.func, inst)
    IN [c EXCEPT !.pos = IF next # 0 THEN At(next) ELSE After(inst_ebb(c.func, inst))]

\* Cursor::next_ebb: the position it leaves; the EBB returned is its `at`
\* (NoEbb at Nowhere stands for None).
next_ebb(c) ==
    LET cur == current_ebb(c)
        next == IF cur # NoEbb THEN layout_next_ebb(c.func, cur) ELSE entry_block(c.func)
    IN IF next # NoEbb THEN Before(next) ELSE Nowhere

\* Cursor::next_inst: the position it leaves; it returns Some(inst) exactly
\* when that position is At(inst).
next_inst(c) ==
    CASE c.pos.kind \in {"Nowhere", "After"} -> c.pos
      [] c.pos.kind = "At" ->
            LET next == layout_next_inst(c.func, c.pos.at)
            IN IF next # 0 THEN At(next) ELSE After(inst_ebb(c.func, c.pos.at))
      [] c.pos.kind = "Before" ->
            LET next == first_inst(c.func, c.pos.at)
            IN IF next # 0 THEN At(next) ELSE After(c.pos.at)

\* Cursor::insert_inst: before the current instruction, or at the end of the
\* EBB the cursor is after.
insert_inst(c, inst) ==
    IF c.pos.kind = "At"
    THEN [c EXCEPT !.func = layout_insert_inst(c.func, inst, c.pos.at)]
    ELSE [c EXCEPT !.func = append_inst(c.func, inst, c.pos.at)]

\* pos.ins().<builder>: make the instruction and insert it at the cursor.
\* The new instruction is num_insts + 1 and its result, if any, num_values + 1.
ins(c, data) ==
    insert_inst([c EXCEPT !.func = make_inst(c.func, data)], num_insts(c.func) + 1)

\* Cursor::insert_ebb.
insert_ebb(c, new_ebb) ==
    CASE c.pos.kind = "At" ->
            [c EXCEPT !.func = split_ebb(c.func, new_ebb, c.pos.at)]
      [] c.pos.kind = "Nowhere" ->
            [func |-> append_ebb(c.func, new_ebb), pos |-> After(new_ebb)]
      [] c.pos.kind = "Before" ->
            [func |-> layout_insert_ebb(c.func, new_ebb, c.pos.at), pos |-> After(new_ebb)]
      [] c.pos.kind = "After" ->
            [func |-> insert_ebb_after(c.func, new_ebb, c.pos.at), pos |-> After(new_ebb)]

\* Cursor::remove_inst: step to the next instruction, then unlink the current one.
remove_inst(c) ==
    [func |-> layout_remove_inst(c.func, c.pos.at), pos |-> next_inst(c)]

(***************************************************************************)
(* Control-flow graph. preds holds <<to, branch inst, from>>: the           *)
(* predecessors of `to`, keyed by the branch instruction; succs holds       *)
(* <<from, to>>.                                                            *)
(***************************************************************************)
\* DataFlowGraph::analyze_branch: the EBBs a branch instruction can go to.
branch_targets(f, inst) ==
    LET d == f.insts[inst]
    IN CASE d.opcode \in {"jump", "brz", "brnz", "br_icmp"} -> {d.dest}
         [] d.opcode = "br_table" -> {d.dest} \cup Range(f.jump_tables[d.table])
         [] d.opcode = "indirect_jump_table_br" -> Range(f.jump_tables[d.table])
         [] OTHER -> {}

\* The edges leaving `ebb`, read off its instructions.
ebb_edges(f, ebb) ==
    UNION {{<<to, inst, ebb>> : to \in branch_targets(f, inst)} :
           inst \in Range(f.ebb_insts[ebb])}

\* ControlFlowGraph::compute_ebb: add_edge for every branch of `ebb`; the
\* predecessor map of a destination is keyed by the branch instruction.
compute_ebb(g, f, ebb) ==
    LET new == ebb_edges(f, ebb)
    IN [preds |-> {p \in g.preds : ~\E n \in new : n[1] = p[1] /\ n[2] = p[2]} \cup new,
        succs |-> g.succs \cup {<<ebb, n[1]>> : n \in new},
        valid |-> g.valid]

\* ControlFlowGraph::invalidate_ebb_successors: drop `ebb` from the
\* predecessors of each of its recorded successors, and forget the successors.
invalidate_ebb_successors(g, ebb) ==
    LET succ == {x[2] : x \in {y \in g.succs : y[1] = ebb}}
    IN [preds |-> {p \in g.preds : ~(p[1] \in succ /\ p[3] = ebb)},
        succs |-> {x \in g.succs : x[1] # ebb},
        valid |-> g.valid]

\* ControlFlowGraph::recompute_ebb.
recompute_ebb(g, f, ebb) == compute_ebb(invalidate_ebb_successors(g, ebb), f, ebb)

\* ControlFlowGraph::compute: the graph read from scratch off the layout.
compute(f) ==
    LET all == UNION {ebb_edges(f, e) : e \in Range(f.layout)}
    IN [preds |-> all, succs |-> {<<p[3], p[1]>> : p \in all}, valid |-> TRUE]

\* ControlFlowGraph::new: an empty graph on which compute() has not run.
new_cfg == [preds |-> {}, succs |-> {}, valid |-> FALSE]

\* ControlFlowGraph::is_valid: whether compute() has run since the last
\* clear(); it does not compare the graph with the function.
is_valid(g) == g.valid

(***************************************************************************)
(* The hand-written expansions. Each returns the function and the CFG it    *)
(* leaves, and whether it panicked instead.                                 *)
(***************************************************************************)
Expanded(f, g) == [func |-> f, cfg |-> g, panic |-> FALSE]

Panicked(f, g) == [func |-> f, cfg |-> g, panic |-> TRUE]

\* `cfg.recompute_ebb(pos.func, ebb)` for each EBB of `ebbs` from the i-th on, in order.
RECURSIVE recompute_ebbs(_, _, _, _)
recompute_ebbs(g, f, ebbs, i) ==
    IF i > Len(ebbs) THEN g ELSE recompute_ebbs(recompute_ebb(g, f, ebbs[i]), f, ebbs, i + 1)

\* The end of an expansion: the function it built, and the CFG recomputed
\* for `ebbs` in the order the expansion names them.
ExpandedRecomputing(f, g, ebbs) == Expanded(f, recompute_ebbs(g, f, ebbs, 1))

\* A faulty variant of the branch over the trap: it keeps the sense of the trap.
cond_trap_branch_same_sense(trapz, arg, new_ebb) ==
    IF trapz THEN Brz(arg, new_ebb, <<>>) ELSE Brnz(arg, new_ebb, <<>>)

\* `if trapz { ...brnz(arg, new_ebb, &[]) } else { ...brz(arg, new_ebb, &[]) }`:
\* the branch *over* the unconditional trap.
cond_trap_branch(trapz, arg, new_ebb) ==
    IF trapz THEN Brnz(arg, new_ebb, <<>>) ELSE Brz(arg, new_ebb, <<>>)

\* A faulty variant of expand_cond_trap: the unconditional trap is not inserted.
expand_cond_trap_without_trap(inst, f, g, target) ==
    LET d == f.insts[inst]
        old_ebb == pp_ebb(f, inst)
        new_ebb == num_ebbs(f) + 1
        f2 == replace(make_ebb(f), inst, cond_trap_branch(d.opcode = "trapz", d.args[1], new_ebb))
        c2 == insert_ebb(after_inst(FuncCursor(f2), inst), new_ebb)
    IN ExpandedRecomputing(c2.func, g, <<old_ebb, new_ebb>>)

\* Custom expansion for conditional trap instructions.
expand_cond_trap(inst, f, g, target) ==
    LET d == f.insts[inst]
        trapz == d.opcode = "trapz"
        arg == d.args[1]
        code == d.code
        old_ebb == pp_ebb(f, inst)
        new_ebb == num_ebbs(f) + 1
        f1 == make_ebb(f)
        f2 == replace(f1, inst, cond_trap_branch(trapz, arg, new_ebb))
        c0 == after_inst(FuncCursor(f2), inst)
        c1 == ins(c0, Trap(code))
        c2 == insert_ebb(c1, new_ebb)
    IN ExpandedRecomputing(c2.func, g, <<old_ebb, new_ebb>>)

\* A faulty variant of the bounds check: an index equal to the table's length passes.
bounds_check_off_by_one(arg, table_size) == IcmpImm("ugt", arg, table_size)

\* The bounds check: `icmp_imm(IntCC::UnsignedGreaterThanOrEqual, arg, table_size as i64)`.
bounds_check(arg, table_size) == IcmpImm("uge", arg, table_size)

\* A faulty variant of the table load: the entries are taken to be as wide
\* as a 64-bit pointer.
table_entry_wide(addr_ty, arg, base_addr, table) ==
    JumpTableEntry(addr_ty, arg, base_addr, 8, table)

\* The load of the table's entry: `jump_table_entry(addr_ty, arg, base_addr,
\* entry_ty.bytes() as u8, table)` with entry_ty = I32.
table_entry(addr_ty, arg, base_addr, table) ==
    JumpTableEntry(addr_ty, arg, base_addr, 4, table)

\* Expand br_table to jump table. The values the builder returns are the
\* next unused ones: oob, base_addr, entry, addr.
expand_br_table_jt(inst, f, g, target) ==
    LET d == f.insts[inst]
        arg == d.args[1]
        default_ebb == d.dest
        table == d.table
        table_size == Len(f.jump_tables[table])
        addr_ty == target.pointer_type
        ebb == pp_ebb(f, inst)
        jump_table_ebb == num_ebbs(f) + 1
        f1 == make_ebb(f)
        c0 == at_inst(FuncCursor(f1), inst)
        oob == num_values(f) + 1
        c1 == ins(c0, bounds_check(arg, table_size))
        c2 == ins(c1, Brnz(oob, default_ebb, <<>>))
        c3 == ins(c2, Jump(jump_table_ebb, <<>>))
        c4 == insert_ebb(c3, jump_table_ebb)
        base_addr == num_values(f) + 2
        c5 == ins(c4, JumpTableBase(addr_ty, table))
        entry == num_values(f) + 3
        c6 == ins(c5, table_entry(addr_ty, arg, base_addr, table))
        addr == num_values(f) + 4
        c7 == ins(c6, Iadd(addr_ty, base_addr, entry))
        c8 == ins(c7, IndirectJumpTableBr(addr, table))
        c9 == remove_inst(c8)
    IN ExpandedRecomputing(c9.func, g, <<ebb, jump_table_ebb>>)

\* `if i < table_size - 1 { pos.ins().jump(cond_failed_ebb[i], &[]);
\* pos.insert_ebb(cond_failed_ebb[i]); }`
jump_to_next_case(c, more, failed_ebb) ==
    IF more THEN insert_ebb(ins(c, Jump(failed_ebb, <<>>)), failed_ebb) ELSE c

\* One iteration of expand_br_table_conds's `for i in 0..table_size`, and the
\* iterations after it. `dests` is the jump table, cond_failed_ebb[i] is
\* first_failed + i and the i-th comparison defines the value first_t + i.
RECURSIVE br_table_conds_loop(_, _, _, _, _, _)
br_table_conds_loop(c, i, dests, arg, first_failed, first_t) ==
    IF i >= Len(dests)
    THEN c
    ELSE LET dest == dests[i + 1]
             t == first_t + i
             c1 == ins(c, IcmpImm("eq", arg, i))
             c2 == ins(c1, Brnz(t, dest, <<>>))
             c3 == jump_to_next_case(c2, i < Len(dests) - 1, first_failed + i)
         IN br_table_conds_loop(c3, i + 1, dests, arg, first_failed, first_t)

\* `for _ in 0..table_size - 1 { cond_failed_ebb.push(func.dfg.make_ebb()) }`.
RECURSIVE make_ebbs(_, _)
make_ebbs(f, n) == IF n <= 0 THEN f ELSE make_ebbs(make_ebb(f), n - 1)

\* Expand br_table to series of conditionals.
\* `Vec::with_capacity(table_size - 1)` is evaluated in usize: for an empty
\* table the subtraction overflows, which panics in a build with overflow
\* checks and otherwise asks for a capacity of usize::MAX elements, which
\* panics with "capacity overflow". Either build panics before any change.
expand_br_table_conds(inst, f, g, target) ==
    LET d == f.insts[inst]
        arg == d.args[1]
        default_ebb == d.dest
        table == d.table
        ebb == pp_ebb(f, inst)
        table_size == Len(f.jump_tables[table])
        first_failed == num_ebbs(f) + 1
        cond_failed_ebb == [i \in 1..(table_size - 1) |-> first_failed + i - 1]
        f1 == make_ebbs(f, table_size - 1)
        c0 == at_inst(FuncCursor(f1), inst)
        c1 == br_table_conds_loop(c0, 0, f.jump_tables[table], arg, first_failed,
                                  num_values(f) + 1)
        c2 == ins(c1, Jump(default_ebb, <<>>))
        c3 == remove_inst(c2)
    IN IF table_size = 0
       THEN Panicked(f, g)
       ELSE ExpandedRecomputing(c3.func, g, <<ebb>> \o cond_failed_ebb)

\* A faulty variant of expand_br_table: a jump table whatever the target's flag.
expand_br_table_always_jt(inst, f, g, target) == expand_br_table_jt(inst, f, g, target)

\* Jump tables.
expand_br_table(inst, f, g, target) ==
    IF target.jump_tables_enabled
    THEN expand_br_table_jt(inst, f, g, target)
    ELSE expand_br_table_conds(inst, f, g, target)

\* A faulty variant of expand_select: the two values change places.
expand_select_swapped(inst, f, g, target) ==
    LET d == f.insts[inst]
        old_ebb == pp_ebb(f, inst)
        new_ebb == num_ebbs(f) + 1
        f3 == attach_ebb_param(make_ebb(clear_results(f, inst)), new_ebb, first_result(f, inst))
        f4 == replace(f3, inst, Brnz(d.args[1], new_ebb, <<d.args[3]>>))
        c1 == ins(after_inst(FuncCursor(f4), inst), Jump(new_ebb, <<d.args[2]>>))
        c2 == insert_ebb(c1, new_ebb)
    IN ExpandedRecomputing(c2.func, g, <<new_ebb, old_ebb>>)

\* Expand the select instruction.
expand_select(inst, f, g, target) ==
    LET d == f.insts[inst]
        ctrl == d.args[1]
        tval == d.args[2]
        fval == d.args[3]
        old_ebb == pp_ebb(f, inst)
        result == first_result(f, inst)
        new_ebb == num_ebbs(f) + 1
        f1 == clear_results(f, inst)
        f2 == make_ebb(f1)
        f3 == attach_ebb_param(f2, new_ebb, result)
        f4 == replace(f3, inst, Brnz(ctrl, new_ebb, <<tval>>))
        c0 == after_inst(FuncCursor(f4), inst)
        c1 == ins(c0, Jump(new_ebb, <<fval>>))
        c2 == insert_ebb(c1, new_ebb)
    IN ExpandedRecomputing(c2.func, g, <<new_ebb, old_ebb>>)

\* A faulty variant of expand_br_icmp: the CFG of the branch's own EBB is not recomputed.
br_icmp_branch_stale_cfg(inst, f2, g, destination, ebb_args, old_ebb) ==
    LET c0 == after_inst(FuncCursor(f2), inst)
        c1 == ins(c0, Brnz(first_result(f2, inst), destination, ebb_args))
    IN ExpandedRecomputing(c1.func, g, <<destination>>)

\* The rest of expand_br_icmp once the instruction is an icmp.
br_icmp_branch(inst, f2, g, destination, ebb_args, old_ebb) ==
    LET icmp_res == first_result(f2, inst)
        c0 == after_inst(FuncCursor(f2), inst)
        c1 == ins(c0, Brnz(icmp_res, destination, ebb_args))
    IN ExpandedRecomputing(c1.func, g, <<destination, old_ebb>>)

\* A faulty variant of expand_br_icmp: it rewrites nothing, and the action
\* still reports a change.
expand_br_icmp_in_place(inst, f, g, target) == Expanded(f, g)

\* Expand br_icmp into icmp and brnz.
expand_br_icmp(inst, f, g, target) ==
    LET d == f.insts[inst]
        cond == d.cond
        a == d.args[1]
        b == d.args[2]
        destination == d.dest
        ebb_args == SubSeq(d.args, 3, Len(d.args))
        old_ebb == pp_ebb(f, inst)
        f1 == clear_results(f, inst)
        f2 == replace(f1, inst, Icmp(cond, a, b))
    IN br_icmp_branch(inst, f2, g, destination, ebb_args, old_ebb)

\* `i64::from(imm.bits())` on the u32 bits of an Ieee32: zero extension.
imm64_from_u32(bits) == bits

\* `imm.bits() as i64` on the u64 bits of an Ieee64: the same bits read as
\* a two's complement number.
u64_as_i64(bits) == IF bits >= 2 ^ (Bits64 - 1) THEN bits - 2 ^ Bits64 ELSE bits

\* A faulty variant of expand_fconst: the constant keeps its integer type.
expand_fconst_untyped(inst, f, g, target) ==
    LET d == f.insts[inst]
        ival == num_values(f) + 1
        c1 == ins(at_inst(FuncCursor(f), inst),
                  IF d.opcode = "f32const" THEN Iconst("i32", imm64_from_u32(d.imm))
                  ELSE Iconst("i64", u64_as_i64(d.imm)))
    IN Expanded(replace(c1.func, inst,
                        Bitcast(IF d.opcode = "f32const" THEN "i32" ELSE "i64", ival)), g)

\* Expand illegal `f32const` and `f64const` instructions.
expand_fconst(inst, f, g, target) ==
    LET d == f.insts[inst]
        ty == value_type(f, first_result(f, inst))
        c0 == at_inst(FuncCursor(f), inst)
        ival == num_values(f) + 1
        c1 == ins(c0, IF d.opcode = "f32const"
                      THEN Iconst("i32", imm64_from_u32(d.imm))
                      ELSE Iconst("i64", u64_as_i64(d.imm)))
    IN IF d.opcode \in {"f32const", "f64const"}
       THEN Expanded(replace(c1.func, inst, Bitcast(ty, ival)), g)
       ELSE Panicked(f, g)

\* Expand illegal `stack_load` instructions.
expand_stack_load(inst, f, g, target) ==
    LET d == f.insts[inst]
        ty == value_type(f, first_result(f, inst))
        addr_ty == target.pointer_type
        c0 == at_inst(FuncCursor(f), inst)
        stack_slot == d.code
        offset == d.imm
        addr == num_values(f) + 1
        c1 == ins(c0, StackAddr(addr_ty, stack_slot, offset))
        mflags == "trusted"
    IN IF d.opcode = "stack_load"
       THEN Expanded(replace(c1.func, inst, Load(ty, mflags, addr, 0)), g)
       ELSE Panicked(f, g)

(***************************************************************************)
(* The collaborators of the driver: the encoding oracle of the target, the  *)
(* generated pattern table, branch-argument simplification, the ABI         *)
(* boundary handlers and the libcall fallback.                              *)
(***************************************************************************)
\* The opcodes the modelled target cannot encode; its action for each is `expand`.
IllegalOpcodes ==
    {"trapz", "trapnz", "select", "br_icmp", "br_table", "iadd_imm", "udiv", "popcnt",
     "f32const", "f64const", "stack_load"}

\* TargetIsa::encode: Ok(encoding) or Err(action).
encode(f, inst, target) ==
    IF f.insts[inst].opcode \in IllegalOpcodes
    THEN [ok |-> FALSE, encoding |-> 0, action |-> "expand"]
    ELSE [ok |-> TRUE, encoding |-> 1, action |-> ""]

encoding_of(f, inst) == IF inst <= Len(f.encodings) THEN f.encodings[inst] ELSE 0

\* `self.encodings[inst] = e` on a map that grows on write.
set_encoding(f, inst, e) ==
    LET grown == f.encodings \o [i \in 1..(inst - Len(f.encodings)) |-> 0]
    IN [f EXCEPT !.encodings = [grown EXCEPT ![inst] = e]]

\* `func.encodings.resize(func.dfg.num_insts())`.
resize_encodings(f) ==
    [f EXCEPT !.encodings = [i \in 1..num_insts(f) |-> encoding_of(f, i)]]

\* The generated pattern `a = iadd_imm x, y  =>  a1 = iconst y; a = iadd x, a1`.
expand_iadd_imm(inst, f, g, target) ==
    LET d == f.insts[inst]
        c0 == at_inst(FuncCursor(f), inst)
        a1 == num_values(f) + 1
        c1 == ins(c0, Iconst(d.ty, d.imm))
        f1 == replace(c1.func, inst, Iadd(d.ty, d.args[1], a1))
    IN Expanded(f1, g)

\* The generated `expand` action: dispatch on the opcode; true when a rule
\* or a custom expansion applied, false when none matches.
expand(inst, f, g, target) ==
    LET opcode == f.insts[inst].opcode
        with(r) == [func |-> r.func, cfg |-> r.cfg, panic |-> r.panic, changed |-> ~r.panic]
    IN CASE opcode \in {"trapz", "trapnz"} -> with(expand_cond_trap(inst, f, g, target))
         [] opcode = "br_table" -> with(expand_br_table(inst, f, g, target))
         [] opcode = "select" -> with(expand_select(inst, f, g, target))
         [] opcode = "br_icmp" -> with(expand_br_icmp(inst, f, g, target))
         [] opcode = "iadd_imm" -> with(expand_iadd_imm(inst, f, g, target))
         [] opcode \in {"f32const", "f64const"} -> with(expand_fconst(inst, f, g, target))
         [] opcode = "stack_load" -> with(expand_stack_load(inst, f, g, target))
         [] OTHER -> [func |-> f, cfg |-> g, panic |-> FALSE, changed |-> FALSE]

\* The arguments from position i on that are not the destination's own
\* parameter in the same place.
RECURSIVE drop_own_params(_, _, _, _)
drop_own_params(args, params, fixed, i) ==
    IF i > Len(args)
    THEN <<>>
    ELSE LET own == i > fixed /\ i - fixed <= Len(params) /\ args[i] = params[i - fixed]
         IN (IF own THEN <<>> ELSE <<args[i]>>) \o drop_own_params(args, params, fixed, i + 1)

\* split::simplify_branch_arguments: drop the branch arguments that are the
\* destination's own parameter; a DFG edit only.
simplify_branch_arguments(f, inst) ==
    LET d == f.insts[inst]
        fixed == IF d.opcode \in {"brz", "brnz"} THEN 1
                 ELSE IF d.opcode = "br_icmp" THEN 2
                 ELSE IF d.opcode = "jump" THEN 0 ELSE Len(d.args)
        params == IF d.dest = NoEbb THEN <<>> ELSE f.ebb_params[d.dest]
    IN [f EXCEPT !.insts[inst].args = drop_own_params(d.args, params, fixed, 1)]

\* The ABI-legal form of an argument type: narrow integers are extended.
legal_type(ty) == IF ty = "i8" THEN "i32" ELSE ty

legal_sig(sig) ==
    [params |-> [i \in 1..Len(sig.params) |-> legal_type(sig.params[i])],
     returns |-> [i \in 1..Len(sig.returns) |-> legal_type(sig.returns[i])]]

\* boundary::legalize_signatures.
legalize_signatures(f, target) ==
    [f EXCEPT !.signature = legal_sig(@),
              !.ext_funcs = [i \in 1..Len(@) |-> [@[i] EXCEPT !.sig = legal_sig(@)]]]

\* Convert the arguments of `inst` from position i on to the types `tys`: an
\* argument of another type is extended by a uextend inserted before `inst`.
RECURSIVE legalize_inst_arguments(_, _, _, _)
legalize_inst_arguments(f, inst, tys, i) ==
    IF i > Len(tys)
    THEN f
    ELSE LET v == f.insts[inst].args[i]
         IN IF value_type(f, v) = tys[i]
            THEN legalize_inst_arguments(f, inst, tys, i + 1)
            ELSE LET c == ins(at_inst(FuncCursor(f), inst), Uextend(tys[i], v))
                     f1 == [c.func EXCEPT !.insts[inst].args[i] = num_values(f) + 1]
                 IN legalize_inst_arguments(f1, inst, tys, i + 1)

args_match(f, inst, tys) ==
    \A i \in 1..Len(tys) : value_type(f, f.insts[inst].args[i]) = tys[i]

\* boundary::handle_call_abi: true iff it inserted conversions.
handle_call_abi(inst, f, g) ==
    LET tys == f.ext_funcs[f.insts[inst].imm].sig.params
    IN IF args_match(f, inst, tys)
       THEN [func |-> f, changed |-> FALSE]
       ELSE [func |-> legalize_inst_arguments(f, inst, tys, 1), changed |-> TRUE]

\* boundary::handle_return_abi: true iff it inserted conversions.
handle_return_abi(inst, f, g) ==
    LET tys == f.signature.returns
    IN IF args_match(f, inst, tys)
       THEN [func |-> f, changed |-> FALSE]
       ELSE [func |-> legalize_inst_arguments(f, inst, tys, 1), changed |-> TRUE]

\* LibCall::for_inst: the runtime routine standing in for an instruction.
libcall_for_inst(opcode, ty) == IF opcode = "udiv" /\ ty = "i64" THEN "UdivI64" ELSE ""

\* libcall::expand_as_libcall: replace the instruction by a call to the
\* routine, importing the routine when the function does not know it yet.
expand_as_libcall(inst, f, target) ==
    LET d == f.insts[inst]
        name == libcall_for_inst(d.opcode, d.ty)
        known == {i \in 1..Len(f.ext_funcs) : f.ext_funcs[i].name = name}
        sig == [params |-> [i \in 1..Len(d.args) |-> value_type(f, d.args[i])],
                returns |-> <<d.ty>>]
        f1 == IF known # {} THEN f
              ELSE [f EXCEPT !.ext_funcs = Append(@, [name |-> name, sig |-> sig])]
        func_ref == IF known # {} THEN CHOOSE i \in known : TRUE ELSE Len(f1.ext_funcs)
    IN IF name = ""
       THEN [func |-> f, changed |-> FALSE]
       ELSE [func |-> replace(f1, inst, Call(d.ty, func_ref, d.args)), changed |-> TRUE]

(***************************************************************************)
(* legalize_inst: what one visit of `inst` does to the function and the     *)
(* CFG, whether it reports a change, whether it asked the oracle, and which *)
(* of its exits it took.                                                    *)
(***************************************************************************)
InstResult(f, g, changed, asked, exit) ==
    [func |-> f, cfg |-> g, changed |-> changed, asked |-> asked, exit |-> exit]

\* `expand_as_libcall(inst, pos.func, isa)`: the last resort.
after_libcall(l, g) ==
    InstResult(l.func, g, l.changed, TRUE, IF l.changed THEN "libcall" ELSE "unlegalized")

\* The Err(action) arm once the action `a` has run.
after_action(inst, a, target) ==
    IF a.panic
    THEN InstResult(a.func, a.cfg, FALSE, TRUE, "panic")
    ELSE IF a.changed
    THEN InstResult(a.func, a.cfg, TRUE, TRUE, "action")
    ELSE after_libcall(expand_as_libcall(inst, a.func, target), a.cfg)

\* The `match pos.func.update_encoding(inst, isa)` of legalize_inst.
update_encoding_or_expand(inst, f, g, target) ==
    IF encode(f, inst, target).ok
    THEN InstResult(set_encoding(f, inst, encode(f, inst, target).encoding), g,
                    FALSE, TRUE, "encoded")
    ELSE after_action(inst, expand(inst, f, g, target), target)

\* The check for ABI boundaries, and the branch-argument simplification.
abi_boundary(inst, f, g) ==
    LET opcode == f.insts[inst].opcode
        edited(r, exit) == [func |-> r.func, changed |-> r.changed, exit |-> exit]
    IN CASE is_call(opcode) -> edited(handle_call_abi(inst, f, g), "call_abi")
         [] is_return(opcode) -> edited(handle_return_abi(inst, f, g), "return_abi")
         [] is_branch(opcode) ->
              [func |-> simplify_branch_arguments(f, inst), changed |-> FALSE, exit |-> ""]
         [] OTHER -> [func |-> f, changed |-> FALSE, exit |-> ""]

\* A faulty variant of legalize_inst: the oracle is asked whatever the
\* boundary check reported.
after_abi_boundary_asking(inst, b, g, target) ==
    update_encoding_or_expand(inst, b.func, g, target)

\* legalize_inst once the boundary check `b` has run.
after_abi_boundary(inst, b, g, target) ==
    IF b.changed
    THEN InstResult(b.func, g, TRUE, FALSE, b.exit)
    ELSE update_encoding_or_expand(inst, b.func, g, target)

legalize_inst(inst, f, g, target) ==
    after_abi_boundary(inst, abi_boundary(inst, f, g), g, target)

(***************************************************************************)
(* The input functions.                                                     *)
(*                                                                          *)
(*   ebb1(v1: i32, v2: i64, v3: i64, v4: i8):  jump ebb2                    *)
(*   ebb2:  <body>; <terminator>                                            *)
(*   ebb3:  return v4                                                       *)
(*   ebb4(v5: i8):  call fn1(v5); brnz v5, ebb4(v5); jump ebb3              *)
(*                                                                          *)
(* The body is any sequence of at most MaxBody instructions of BodyOps and  *)
(* the terminator of ebb2 is `jump ebb3` or `br_table v1, ebb3, jt1` over   *)
(* any table of at most MaxTable entries among ebb2 and ebb3.               *)
(***************************************************************************)
BodyOps == {"trapz", "trapnz", "select", "br_icmp", "iadd_imm", "udiv", "popcnt"}

body_inst(op) ==
    CASE op = "trapz" -> Trapz(1, "user0")
      [] op = "trapnz" -> Trapnz(1, "user0")
      [] op = "select" -> Select("i64", 1, 2, 3)
      [] op = "br_icmp" -> BrIcmp("slt", 2, 3, 4, <<4>>)
      [] op = "iadd_imm" -> IaddImm("i64", 2, 7)
      [] op = "udiv" -> Udiv("i64", 2, 3)
      [] op = "popcnt" -> Popcnt("i64", 2)
      [] op = "f32const" -> F32const(2 ^ Bits32 - 1)
      [] op = "f64const" -> F64const(2 ^ (Bits64 - 1) + 1)
      [] op = "stack_load" -> StackLoad("i32", "ss0", 4)

\* Build an instruction and append it to `ebb`.
append_built(f, ebb, data) == append_inst(make_inst(f, data), num_insts(f) + 1, ebb)

RECURSIVE append_body(_, _, _, _)
append_body(f, ebb, body, i) ==
    IF i > Len(body) THEN f
    ELSE append_body(append_built(f, ebb, body_inst(body[i])), ebb, body, i + 1)

EmptyFunction ==
    [insts |-> <<>>, results |-> <<>>,
     vals |-> <<ValueData("param", 1, 1, "i32"), ValueData("param", 1, 2, "i64"),
                ValueData("param", 1, 3, "i64"), ValueData("param", 1, 4, "i8"),
                ValueData("param", 4, 1, "i8")>>,
     ebb_params |-> << <<1, 2, 3, 4>>, <<>>, <<>>, <<5>> >>,
     layout |-> <<1, 2, 3, 4>>,
     ebb_insts |-> << <<>>, <<>>, <<>>, <<>> >>,
     jump_tables |-> <<>>,
     encodings |-> <<>>,
     signature |-> [params |-> <<"i32", "i64", "i64", "i8">>, returns |-> <<"i8">>],
     ext_funcs |-> <<[name |-> "fn1", sig |-> [params |-> <<"i8">>, returns |-> <<>>]]>>]

\* has_table: ebb2 ends in br_table over `table`; otherwise in `jump ebb3`.
InputFunction(body, has_table, table) ==
    LET f1 == append_built(EmptyFunction, 1, Jump(2, <<>>))
        f2 == append_body(f1, 2, body, 1)
        f3 == IF has_table
              THEN append_built([f2 EXCEPT !.jump_tables = <<table>>], 2, BrTable(1, 3, 1))
              ELSE append_built(f2, 2, Jump(3, <<>>))
        f4 == append_built(f3, 3, Return(<<4>>))
        f5 == append_built(f4, 4, Call("", 1, <<5>>))
        f6 == append_built(f5, 4, Brnz(5, 4, <<5>>))
    IN append_built(f6, 4, Jump(3, <<>>))

NoStep == [exit |-> "none", inst |-> 0, opcode |-> ""]

\* No TestRunner exists. Next to the fields of TestRunner the record holds
\* the ConcurrentRunner's channels (requests, replies), the jobs its workers
\* are on (busy) and whether it was shut down; the client's world (the file
\* system, the tests that fail, the method called, its result, a panic); and
\* as history the jobs reported, in order, the STALLED reports, the path
\* errors, how often each job was handed to runone::run, and the Tick replies
\* handled since the last Done reply.
NoRunner ==
    [dir_stack |-> <<>>, tests |-> <<>>, new_tests |-> 0,
     reported_tests |-> 0, errors |-> 0, ticks_since_progress |-> 0, threads |-> FALSE,
     requests |-> <<>>, busy |-> {}, replies |-> <<>>, shut |-> FALSE,
     fs |-> <<>>, fails |-> {}, call |-> "none", result |-> "none", panic |-> "",
     reported |-> <<>>, stalled |-> 0, path_errors |-> 0, ran |-> <<>>, since_done |-> 0]

\* No function is being reduced.
\* No thread asks whether tracing is enabled.
NoDbg ==
    [mo |-> <<0>>, env |-> "unset", debug_assertions |-> FALSE, threads |-> <<>>, calls |-> 0,
     returns |-> {}, consulted |-> {}]

\* No function is going through GVN.
NoGvn ==
    [enabled |-> FALSE, limited |-> FALSE, allowed |-> 0, reversed |-> FALSE, postorder |-> <<>>, i |-> 0, at |-> 0,
     visible_values |-> {}, visited |-> <<>>, recorded |-> {}, removed |-> {}, discarded |-> {},
     existing |-> 0]

NoPhase == [kind |-> "none", ebb |-> NoEbb, inst |-> 0]

NoReduce ==
    [phase |-> NoPhase, pass_idx |-> 0, iter |-> 0, was_reduced |-> FALSE,
     crash |-> {}, debug_assertions |-> FALSE, orig |-> <<0, 0>>,
     step |-> "", res |-> "", cand |-> [layout |-> <<>>], adopted |-> 0, shrunk |-> 0, panic |-> ""]

\* No Switch is being built.
NoSwitch ==
    [cases |-> {}, todo |-> <<>>, val |-> 0, otherwise |-> NoEbb, block |-> NoEbb,
     collected |-> <<>>, tree |-> <<>>, jts |-> <<>>, checked |-> FALSE]

Init ==
    /\ \E body \in SeqsUpTo(BodyOps, MaxBody), has_table \in BOOLEAN,
          table \in SeqsUpTo({2, 3}, MaxTable) :
            /\ (~has_table => table = <<>>)
            /\ func = InputFunction(body, has_table, table)
    /\ cfg = compute(func)
    /\ isa \in [jump_tables_enabled : BOOLEAN, pointer_type : {"i64"}]
    /\ pos = Nowhere
    /\ prev_pos = Nowhere
    /\ pc = "start"
    /\ entered = <<>>
    /\ queried = {}
    /\ failed = {}
    /\ last = NoStep
    /\ steps = 0
    /\ sw = NoSwitch
    /\ tr = NoRunner
    /\ red = NoReduce
    /\ dbg = NoDbg
    /\ gvn = NoGvn

\* The inputs whose body is made of the value-producing instructions that
\* the hand-written expansions rewrite.
ValueOps == {"select", "f32const", "f64const", "stack_load", "iadd_imm"}

InitValues ==
    /\ \E body \in SeqsUpTo(ValueOps, MaxBody) : func = InputFunction(body, FALSE, <<>>)
    /\ cfg = compute(func)
    /\ isa \in [jump_tables_enabled : BOOLEAN, pointer_type : {"i64"}]
    /\ pos = Nowhere
    /\ prev_pos = Nowhere
    /\ pc = "start"
    /\ entered = <<>>
    /\ queried = {}
    /\ failed = {}
    /\ last = NoStep
    /\ steps = 0
    /\ sw = NoSwitch
    /\ tr = NoRunner
    /\ red = NoReduce
    /\ dbg = NoDbg
    /\ gvn = NoGvn

\* The inputs whose CFG is any of: the one computed for the function, a
\* graph that was never computed, the graph computed for another function.
InitAnyCfg ==
    /\ \E body \in SeqsUpTo(ValueOps, MaxBody) : func = InputFunction(body, FALSE, <<>>)
    /\ cfg \in {compute(func), new_cfg, compute(InputFunction(<<>>, FALSE, <<>>))}
    /\ isa \in [jump_tables_enabled : BOOLEAN, pointer_type : {"i64"}]
    /\ pos = Nowhere
    /\ prev_pos = Nowhere
    /\ pc = "start"
    /\ entered = <<>>
    /\ queried = {}
    /\ failed = {}
    /\ last = NoStep
    /\ steps = 0
    /\ sw = NoSwitch
    /\ tr = NoRunner
    /\ red = NoReduce
    /\ dbg = NoDbg
    /\ gvn = NoGvn

(***************************************************************************)
(* legalize_function.                                                       *)
(***************************************************************************)
\* Up to the creation of the cursor.
Start ==
    /\ pc = "start"
    /\ func' = resize_encodings(legalize_signatures(func, isa))
    /\ pos' = Nowhere
    /\ pc' = "next_ebb"
    /\ steps' = steps + 1
    /\ UNCHANGED <<cfg, isa, prev_pos, entered, queried, failed, last, sw, tr, red,
                   dbg, gvn>>

\* `debug_assert!(cfg.is_valid())` in a build with debug assertions, on a
\* graph that compute() has not run on: a panic. A build without them has
\* no such step, and goes on with Start.
AssertFails ==
    /\ pc = "start"
    /\ ~is_valid(cfg)
    /\ pc' = "panic"
    /\ steps' = steps + 1
    /\ UNCHANGED <<func, cfg, isa, pos, prev_pos, entered, queried, failed, last, sw, tr, red,
                   dbg, gvn>>

\* A faulty variant of the outer loop: it walks only the EBBs the function had on entry.
walk_next_ebb_of_entry_layout(f, p) ==
    LET rest == SelectSeq(f.layout, LAMBDA e : e <= 4 \/ e = current_ebb([func |-> f, pos |-> p]))
    IN next_ebb([func |-> [f EXCEPT !.layout = rest], pos |-> p])

\* `pos.next_ebb()` of the outer loop, on the layout as it is now.
walk_next_ebb(f, p) == next_ebb([func |-> f, pos |-> p])

\* `pos.next_inst()` of the inner loop, on the layout as it is now.
walk_next_inst(f, p) == next_inst([func |-> f, pos |-> p])

\* A faulty variant of the inner loop's body: it never doubles back.
remember_position(changed, here, prev) == [pos |-> here, prev_pos |-> here]

\* The body of the inner loop after legalize_inst: go back to the saved
\* position when the step changed the code, remember this position otherwise.
double_back_or_remember(changed, here, prev) ==
    IF changed
    THEN [pos |-> prev, prev_pos |-> prev]
    ELSE [pos |-> here, prev_pos |-> here]

\* `while let Some(_ebb) = pos.next_ebb()`: an EBB is left to walk.
NextEbb ==
    /\ pc = "next_ebb"
    /\ walk_next_ebb(func, pos).kind = "Before"
    /\ pos' = walk_next_ebb(func, pos)
    /\ prev_pos' = pos'
    /\ entered' = Append(entered, pos'.at)
    /\ pc' = "next_inst"
    /\ steps' = steps + 1
    /\ UNCHANGED <<func, cfg, isa, queried, failed, last, sw, tr, red,
                   dbg, gvn>>

\* `while let Some(inst) = pos.next_inst()`: the EBB has no further instruction.
EndOfEbb ==
    /\ pc = "next_inst"
    /\ walk_next_inst(func, pos).kind # "At"
    /\ pos' = walk_next_inst(func, pos)
    /\ pc' = "next_ebb"
    /\ steps' = steps + 1
    /\ UNCHANGED <<func, cfg, isa, prev_pos, entered, queried, failed, last, sw, tr, red,
                   dbg, gvn>>

\* One iteration of the inner loop: legalize_inst on the next instruction,
\* then double back or remember the position. A panic ends the run.
VisitInst ==
    /\ pc = "next_inst"
    /\ \E here \in {walk_next_inst(func, pos)} :
        /\ here.kind = "At"
        /\ \E r \in {legalize_inst(here.at, func, cfg, isa)} :
            /\ func' = r.func
            /\ cfg' = r.cfg
            /\ queried' = IF r.asked THEN queried \cup {here.at} ELSE queried
            /\ failed' = IF r.exit = "unlegalized" THEN failed \cup {here.at} ELSE failed
            /\ last' = [exit |-> r.exit, inst |-> here.at,
                        opcode |-> func.insts[here.at].opcode]
            /\ IF r.exit = "panic"
               THEN pc' = "panic" /\ pos' = here /\ UNCHANGED prev_pos
               ELSE /\ pc' = "next_inst"
                    /\ pos' = double_back_or_remember(r.changed, here, prev_pos).pos
                    /\ prev_pos' = double_back_or_remember(r.changed, here, prev_pos).prev_pos
    /\ steps' = steps + 1
    /\ UNCHANGED <<isa, entered, sw, tr, red, dbg, gvn>>

\* A faulty variant of the end of legalize_function: the jump tables are kept.
keep_jump_tables(f, target) == f

\* "Now that we've lowered all br_tables, we don't need the jump tables anymore."
clear_jump_tables(f, target) ==
    IF ~target.jump_tables_enabled THEN [f EXCEPT !.jump_tables = <<>>] ELSE f

\* The walk is over: clear the jump tables unless the target uses them, and return.
Finish ==
    /\ pc = "next_ebb"
    /\ walk_next_ebb(func, pos).kind # "Before"
    /\ pos' = walk_next_ebb(func, pos)
    /\ func' = clear_jump_tables(func, isa)
    /\ pc' = "done"
    /\ steps' = steps + 1
    /\ UNCHANGED <<cfg, isa, prev_pos, entered, queried, failed, last, sw, tr, red,
                   dbg, gvn>>

Next == Start \/ NextEbb \/ EndOfEbb \/ VisitInst \/ Finish

Spec == Init /\ [][Next]_vars

SpecValues == InitValues /\ [][Next]_vars

\* legalize_function on any CFG, in a build with or without debug assertions.
NextAnyCfg == Next \/ AssertFails

SpecAnyCfg == InitAnyCfg /\ [][NextAnyCfg]_vars

\* A step of legalize_function while it has not returned or panicked.
Running == pc \notin {"done", "panic"}

Tick == Running /\ steps' = steps + 1

\* legalize_function keeps running: while it has neither returned nor
\* panicked it takes its next step. Every step of Next is a Tick and Next is
\* enabled whenever Running, so this is weak fairness of Next.
FairSpec == Spec /\ WF_steps(Tick)

(***************************************************************************)
(* The frontend's Switch (lib/frontend/src/switch.rs) and the               *)
(* FunctionBuilder it emits to. EntryIndex is an i64, of Bits64 bits here.  *)
(***************************************************************************)
i64_MIN == -(2 ^ (Bits64 - 1))

i64_MAX == 2 ^ (Bits64 - 1) - 1

\* The two's complement number of Bits64 bits congruent to x.
wrapping(x) == ((x + 2 ^ (Bits64 - 1)) % (2 ^ Bits64)) - 2 ^ (Bits64 - 1)

\* `a + b` and `-a` on i64: the wrapped result, and whether it overflowed.
\* A build with overflow checks panics on overflow, one without wraps.
add_i64(a, b) == [val |-> wrapping(a + b), overflow |-> a + b > i64_MAX \/ a + b < i64_MIN]

neg_i64(a) == [val |-> wrapping(-a), overflow |-> -a > i64_MAX \/ -a < i64_MIN]

\* Function::new.
NewFunction ==
    [insts |-> <<>>, results |-> <<>>, vals |-> <<>>, ebb_params |-> <<>>,
     layout |-> <<>>, ebb_insts |-> <<>>, jump_tables |-> <<>>, encodings |-> <<>>,
     signature |-> [params |-> <<>>, returns |-> <<>>], ext_funcs |-> <<>>]

\* The FunctionBuilder: the function, the current block, and here also the
\* `cases_and_jt_ebbs` emit threads through, and whether emit has panicked.
Builder(f, block) == [func |-> f, block |-> block, jts |-> <<>>, panic |-> FALSE]

\* FunctionBuilder::create_ebb; the new EBB is num_ebbs of the result.
bx_create_ebb(b) == [b EXCEPT !.func = make_ebb(@)]

\* FunctionBuilder::switch_to_block.
switch_to_block(b, ebb) == [b EXCEPT !.block = ebb]

\* FunctionBuilder::ensure_inserted_ebb: the current block enters the
\* layout, at its end, with its first instruction.
ensure_inserted_ebb(f, ebb) == IF is_ebb_inserted(f, ebb) THEN f ELSE append_ebb(f, ebb)

\* FunctionBuilder::ins().<builder>: append to the current block; the result,
\* if any, is num_values of the function that comes out.
bx_ins(b, data) ==
    [b EXCEPT !.func = append_built(ensure_inserted_ebb(b.func, b.block), b.block, data)]

\* `bx.ins().brnz(v, dest, &[])` on the value the last instruction defined.
bx_brnz_last(b, dest) == bx_ins(b, Brnz(num_values(b.func), dest, <<>>))

\* FunctionBuilder::create_jump_table; the new table is the last one.
create_jump_table(b, jt_data) == [b EXCEPT !.func.jump_tables = Append(@, jt_data)]

\* A faulty variant of set_entry: the entry is replaced without the assertion.
set_entry_replacing(cases, index, ebb) ==
    [cases |-> {c \in cases : c[1] # index} \cup {<<index, ebb>>}, panic |-> FALSE]

\* Switch::set_entry on the HashMap `cases`, a set of <<index, ebb>>: the
\* insert replaces the entry the index has, if any, and then the assertion
\* fails.
set_entry(cases, index, ebb) ==
    [cases |-> {c \in cases : c[1] # index} \cup {<<index, ebb>>},
     panic |-> \E c \in cases : c[1] = index]

\* The place of x in a sequence sorted by key: after every element whose
\* key is not greater.
RECURSIVE insert_by_key(_, _, _)
insert_by_key(sorted, x, i) ==
    IF i > Len(sorted) \/ sorted[i][1] > x[1]
    THEN InsertAt(sorted, i, x)
    ELSE insert_by_key(sorted, x, i + 1)

\* `cases.sort_by_key(|&(index, _)| index)`: a stable sort.
RECURSIVE sort_by_key(_)
sort_by_key(cases) ==
    IF cases = <<>> THEN <<>>
    ELSE insert_by_key(sort_by_key(SubSeq(cases, 1, Len(cases) - 1)), cases[Len(cases)], 1)

\* `cases_tree.last_mut().unwrap().1.push(ebb)`.
push_ebb(tree, ebb) == [tree EXCEPT ![Len(tree)].ebbs = Append(@, ebb)]

\* `cases_tree.push((index, vec![]))` when the entry starts a cluster.
push_cluster(tree, starts, index) ==
    IF starts THEN Append(tree, [first |-> index, ebbs |-> <<>>]) ELSE tree

\* A faulty variant of the cluster test: an entry right after the last one
\* starts a cluster too.
starts_cluster_adjacent(i, index, last_index) == i = 1 \/ index > last_index

\* `match last_index { None => ..., Some(last_index) => index > last_index + 1 }`.
starts_cluster(i, index, last_index) == i = 1 \/ index > add_i64(last_index, 1).val

\* The loop of build_cases_tree from the i-th sorted case on.
RECURSIVE cases_tree_loop(_, _, _, _)
cases_tree_loop(cases, i, tree, checked) ==
    IF i > Len(cases)
    THEN [tree |-> tree, panic |-> FALSE]
    ELSE IF i > 1 /\ checked /\ add_i64(cases[i - 1][1], 1).overflow
    THEN [tree |-> tree, panic |-> TRUE]
    ELSE cases_tree_loop(
             cases, i + 1,
             push_ebb(push_cluster(tree,
                                   starts_cluster(i, cases[i][1],
                                                  IF i = 1 THEN 0 ELSE cases[i - 1][1]),
                                   cases[i][1]),
                      cases[i][2]),
             checked)

\* A faulty variant of build_cases_tree: the cases are taken as the map
\* iterates them.
build_cases_tree_unsorted(cases, checked) == cases_tree_loop(cases, 1, <<>>, checked)

\* Switch::build_cases_tree on the cases in the order the HashMap iterates them.
build_cases_tree(cases, checked) == cases_tree_loop(sort_by_key(cases), 1, <<>>, checked)

\* The singleton arm of the cascade: `icmp_imm eq val, first_index` and
\* `brnz` to the entry's EBB.
test_singleton(b, val, first_index, ebb) ==
    bx_brnz_last(bx_ins(b, IcmpImm("eq", val, first_index)), ebb)

\* The run arm, on the builder in which jt_ebb has just been created:
\* `icmp_imm sge val, first_index`, `brnz` to jt_ebb, and the push onto
\* cases_and_jt_ebbs.
test_run(b, val, cluster) ==
    [bx_brnz_last(bx_ins(b, IcmpImm("sge", val, cluster.first)), num_ebbs(b.func))
        EXCEPT !.jts = Append(@, [first |-> cluster.first, jt_ebb |-> num_ebbs(b.func),
                                  ebbs |-> cluster.ebbs])]

\* One turn of the loop over the clusters of a leaf.
test_cluster(b, val, cluster) ==
    IF Len(cluster.ebbs) = 1
    THEN test_singleton(b, val, cluster.first, cluster.ebbs[1])
    ELSE test_run(bx_create_ebb(b), val, cluster)

\* A faulty variant of the leaf's loop: the clusters are tested first to last.
RECURSIVE cascade_ascending(_, _, _, _)
cascade_ascending(b, val, tree, i) ==
    IF i = 0 THEN b
    ELSE cascade_ascending(test_cluster(b, val, tree[Len(tree) + 1 - i]), val, tree, i - 1)

\* `for (first_index, ebbs) in cases_tree.into_iter().rev()`, from the i-th
\* cluster down.
RECURSIVE cascade(_, _, _, _)
cascade(b, val, tree, i) ==
    IF i = 0 THEN b
    ELSE cascade(test_cluster(b, val, tree[i]), val, tree, i - 1)

\* A faulty variant of the split point: the first cluster alone goes left.
split_point_first(tree) == 1

\* `cases_tree.len() / 2`.
split_point(tree) == Len(tree) \div 2

\* The head of the split, on the builder in which left_ebb and right_ebb have
\* just been created, in this order: the pivot test, `brnz` to right_ebb and
\* `jump` to left_ebb.
split_head(b, val, pivot) ==
    bx_ins(bx_brnz_last(bx_ins(b, IcmpImm("sge", val, pivot)), num_ebbs(b.func)),
           Jump(num_ebbs(b.func) - 1, <<>>))

\* Switch::build_search_tree. In the split, left_ebb and right_ebb are the
\* two EBBs created on entry.
RECURSIVE build_search_tree(_, _, _, _)
build_search_tree(b, val, otherwise, tree) ==
    IF Len(tree) <= 3
    THEN bx_ins(cascade(b, val, tree, Len(tree)), Jump(otherwise, <<>>))
    ELSE build_search_tree(
             switch_to_block(
                 build_search_tree(
                     switch_to_block(
                         split_head(bx_create_ebb(bx_create_ebb(b)), val,
                                    tree[split_point(tree) + 1].first),
                         num_ebbs(b.func) + 1),
                     val, otherwise, SubSeq(tree, 1, split_point(tree))),
                 num_ebbs(b.func) + 2),
             val, otherwise, SubSeq(tree, split_point(tree) + 1, Len(tree)))

\* `bx.ins().br_table(discr, jump_table)` on the value and the table made last.
bx_br_table_last(b) ==
    bx_ins(b, BrTable(num_values(b.func), NoEbb, Len(b.func.jump_tables)))

\* The dispatch block, on the builder switched to jt_ebb: the negation, which
\* panics when it overflows in a build with overflow checks, then iadd_imm,
\* br_table and the jump to otherwise.
dispatch(b, val, otherwise, first_index, checked) ==
    IF checked /\ neg_i64(first_index).overflow
    THEN [b EXCEPT !.panic = TRUE]
    ELSE bx_ins(bx_br_table_last(
                    bx_ins(b, IaddImm(value_type(b.func, val), val,
                                      neg_i64(first_index).val))),
                Jump(otherwise, <<>>))

\* A faulty variant of one turn of build_jump_tables: the table is filled
\* last to first.
jump_table_step_reversed(b, val, otherwise, entry, checked) ==
    dispatch(switch_to_block(create_jump_table(b, Reverse(entry.ebbs)), entry.jt_ebb),
             val, otherwise, entry.first, checked)

\* One turn of the loop of build_jump_tables.
jump_table_step(b, val, otherwise, entry, checked) ==
    dispatch(switch_to_block(create_jump_table(b, entry.ebbs), entry.jt_ebb),
             val, otherwise, entry.first, checked)

\* Switch::build_jump_tables: `cases_and_jt_ebbs.into_iter().rev()`, from
\* the i-th entry down; a panic ends it.
RECURSIVE build_jump_tables(_, _, _, _, _)
build_jump_tables(b, val, otherwise, i, checked) ==
    IF i = 0 \/ b.panic THEN b
    ELSE build_jump_tables(jump_table_step(b, val, otherwise, b.jts[i], checked),
                           val, otherwise, i - 1, checked)

\* A faulty variant of the head of emit: only an i8 is extended.
extend_val_i8_only(b, val) ==
    IF value_type(b.func, val) = "i8" THEN bx_ins(b, Uextend("i32", val)) ELSE b

\* The head of Switch::emit: a value of type i8 or i16 is extended to i32.
extend_val(b, val) ==
    IF value_type(b.func, val) \in {"i8", "i16"} THEN bx_ins(b, Uextend("i32", val)) ELSE b

\* The `val` of emit after its head, on the builder the head leaves.
extended_val(b, val) ==
    IF value_type(b.func, val) \in {"i8", "i16"} THEN num_values(b.func) ELSE val

\* The tail of emit: build_jump_tables on what build_search_tree has pushed.
emit_tables(b, val, otherwise, checked) ==
    build_jump_tables(b, val, otherwise, Len(b.jts), checked)

\* Switch::emit after its head, for the map's entries as collected.
emit_extended(b, val, otherwise, collected, checked) ==
    emit_tables(build_search_tree(b, val, otherwise, build_cases_tree(collected, checked).tree),
                val, otherwise, checked)

\* Switch::emit as one function of the builder, the value, the default and
\* the map's entries in the order the map hands them out.
emit(b, val, otherwise, collected, checked) ==
    emit_extended(extend_val(b, val), extended_val(extend_val(b, val), val), otherwise,
                  collected, checked)

(***************************************************************************)
(* A client of Switch, after the `setup!` of switch.rs's tests: an EBB with *)
(* `v1 = iconst.ty 0`, the entries' EBBs, the set_entry calls, then emit    *)
(* on v1 with the first EBB as `otherwise`.                                 *)
(***************************************************************************)
\* The keys 0, 0 + gaps[1], 0 + gaps[1] + gaps[2], ...
RECURSIVE keys_from(_, _, _)
keys_from(gaps, i, key) ==
    IF i > Len(gaps) THEN {key}
    ELSE {key} \cup keys_from(gaps, i + 1, key + gaps[i])

\* Neighbouring keys are adjacent or one apart.
Gaps == {1, 2}

\* The keys of tests::switch_many.
SwitchMany == {0, 1, 5, 7, 10, 11, 12}

\* Seven clusters: a split under a split.
SwitchSparse == {0, 2, 4, 6, 8, 10, 12}

ExtremeKeys ==
    {{}, {i64_MIN}, {i64_MIN, i64_MIN + 1}, {i64_MAX}, {i64_MAX - 1, i64_MAX},
     {i64_MIN, i64_MAX}}

KeySets ==
    {SwitchMany, SwitchSparse}
        \cup {c \cup e : c \in {{}} \cup {keys_from(g, 1, 0) : g \in SeqsUpTo(Gaps, MaxEntries - 1)},
                         e \in ExtremeKeys}

RECURSIVE SortedKeys(_)
SortedKeys(keys) ==
    IF keys = {} THEN <<>>
    ELSE <<CHOOSE k \in keys : \A j \in keys : k <= j>>
             \o SortedKeys(keys \ {CHOOSE k \in keys : \A j \in keys : k <= j})

\* The entries, by ascending key; their EBBs are 2, 3, ... in this order or
\* in the reverse one.
Entries(keys, ebbs_ascend) ==
    [i \in 1..Len(keys) |-> <<keys[i], IF ebbs_ascend THEN i + 1 ELSE Len(keys) + 2 - i>>]

\* The orders in which the HashMap is taken to iterate: by key up, by key
\* down, and by key up from the second entry on with the first one last.
\* by_key is the first of them.
by_key(cases) ==
    [i \in 1..Cardinality(cases) |->
        CHOOSE c \in cases : c[1] = SortedKeys({d[1] : d \in cases})[i]]

iteration_orders(cases) ==
    {by_key(cases), Reverse(by_key(cases)),
     IF cases = {} THEN <<>> ELSE Append(Tail(by_key(cases)), Head(by_key(cases)))}

\* The function `setup!` has built when it calls set_entry: ebb1 holds
\* `v1 = iconst.ty 0`, and n more EBBs exist.
SetupFunction(ty, n) ==
    make_ebbs(bx_ins(switch_to_block(bx_create_ebb(Builder(NewFunction, NoEbb)), 1),
                     Iconst(ty, 0)).func, n)

InitSwitch ==
    /\ \E keys \in KeySets, ebbs_ascend \in BOOLEAN, calls_ascend \in BOOLEAN,
          twice \in BOOLEAN, ty \in {"i8", "i16", "i32", "i64"}, checked \in BOOLEAN :
          \E e \in {Entries(SortedKeys(keys), ebbs_ascend)} :
            /\ (twice => e # <<>>)
            /\ func = SetupFunction(ty, Len(e))
            /\ sw = [cases |-> {},
                     todo |-> (IF calls_ascend THEN e ELSE Reverse(e))
                                 \o (IF twice THEN <<<<e[1][1], 1>>>> ELSE <<>>),
                     val |-> 1, otherwise |-> 1, block |-> 1,
                     collected |-> <<>>, tree |-> <<>>, jts |-> <<>>, checked |-> checked]
    /\ cfg = new_cfg
    /\ isa = [jump_tables_enabled |-> TRUE, pointer_type |-> "i64"]
    /\ pos = Nowhere
    /\ prev_pos = Nowhere
    /\ pc = "set_entry"
    /\ entered = <<>>
    /\ queried = {}
    /\ failed = {}
    /\ last = NoStep
    /\ steps = 0
    /\ tr = NoRunner
    /\ red = NoReduce
    /\ dbg = NoDbg
    /\ gvn = NoGvn

\* `switch.set_entry(index, ebb)`, the next call of the client.
SetEntry ==
    /\ pc = "set_entry"
    /\ sw.todo # <<>>
    /\ \E r \in {set_entry(sw.cases, Head(sw.todo)[1], Head(sw.todo)[2])} :
          /\ sw' = [sw EXCEPT !.cases = r.cases, !.todo = Tail(@)]
          /\ pc' = IF r.panic THEN "panic" ELSE "set_entry"
    /\ UNCHANGED <<func, cfg, isa, pos, prev_pos, entered, queried, failed, last, steps, tr, red,
                   dbg, gvn>>

\* `switch.emit(&mut bx, val, otherwise)` up to the call of build_cases_tree.
Emit ==
    /\ pc = "set_entry"
    /\ sw.todo = <<>>
    /\ \E b \in {extend_val(Builder(func, sw.block), sw.val)} :
          /\ func' = b.func
          /\ sw' = [sw EXCEPT !.val = IF b.func = func THEN @ ELSE num_values(b.func)]
    /\ pc' = "build_cases_tree"
    /\ UNCHANGED <<cfg, isa, pos, prev_pos, entered, queried, failed, last, steps, tr, red,
                   dbg, gvn>>

\* `let cases_tree = self.build_cases_tree()`, whatever the order in which
\* the map hands out its entries.
BuildCasesTree ==
    /\ pc = "build_cases_tree"
    /\ \E order \in iteration_orders(sw.cases) :
          \E r \in {build_cases_tree(order, sw.checked)} :
            /\ sw' = [sw EXCEPT !.collected = order, !.tree = r.tree]
            /\ pc' = IF r.panic THEN "panic" ELSE "build_search_tree"
    /\ UNCHANGED <<func, cfg, isa, pos, prev_pos, entered, queried, failed, last, steps, tr, red,
                   dbg, gvn>>

\* `Self::build_search_tree(bx, val, otherwise, cases_tree, &mut cases_and_jt_ebbs)`.
BuildSearchTree ==
    /\ pc = "build_search_tree"
    /\ \E b \in {build_search_tree(Builder(func, sw.block), sw.val, sw.otherwise, sw.tree)} :
          /\ func' = b.func
          /\ sw' = [sw EXCEPT !.block = b.block, !.jts = b.jts]
    /\ pc' = "build_jump_tables"
    /\ UNCHANGED <<cfg, isa, pos, prev_pos, entered, queried, failed, last, steps, tr, red,
                   dbg, gvn>>

\* `Self::build_jump_tables(bx, val, otherwise, cases_and_jt_ebbs)` and the
\* return of emit.
BuildJumpTables ==
    /\ pc = "build_jump_tables"
    /\ \E b \in {build_jump_tables([Builder(func, sw.block) EXCEPT !.jts = sw.jts],
                                   sw.val, sw.otherwise, Len(sw.jts), sw.checked)} :
          /\ func' = b.func
          /\ sw' = [sw EXCEPT !.block = b.block]
          /\ pc' = IF b.panic THEN "panic" ELSE "emitted"
    /\ UNCHANGED <<cfg, isa, pos, prev_pos, entered, queried, failed, last, steps, tr, red,
                   dbg, gvn>>

NextSwitch == SetEntry \/ Emit \/ BuildCasesTree \/ BuildSearchTree \/ BuildJumpTables

SpecSwitch == InitSwitch /\ [][NextSwitch]_vars

(***************************************************************************)
(* The filetests TestRunner (lib/filetests/src/runner.rs). A job is an      *)
(* index into `tests`, from 0; tests[jobid + 1] is its QueueEntry here.     *)
(***************************************************************************)
\* Timeout in seconds when we're not making progress.
TIMEOUT_PANIC == 10

\* Timeout for reporting slow tests without panicking.
TIMEOUT_SLOW == 3

QueueEntry(path, state) == [path |-> path, state |-> state]

\* State::Done(result).
Done(result) == IF result = "Ok" THEN "DoneOk" ELSE "DoneErr"

is_done(state) == state \in {"DoneOk", "DoneErr"}

\* The runner has panicked with the message.
panicked(r, msg) == IF r.panic = "" THEN [r EXCEPT !.panic = msg] ELSE r

\* TestRunner::push_dir.
push_dir(r, dir) == [r EXCEPT !.dir_stack = Append(@, dir)]

\* TestRunner::push_test.
push_test(r, file) ==
    [r EXCEPT !.tests = Append(@, QueueEntry(file, "New")), !.ran = Append(@, 0)]

\* TestRunner::start_threads.
start_threads(r) ==
    IF r.threads THEN panicked(r, "assertion failed: self.threads.is_none()")
    ELSE [r EXCEPT !.threads = TRUE]

\* TestRunner::path_error.
path_error(r) == [r EXCEPT !.errors = @ + 1, !.path_errors = @ + 1]

\* TestRunner::report_job.
report_job(r) ==
    /\ r.reported_tests < Len(r.tests)
    /\ is_done(r.tests[r.reported_tests + 1].state)

\* A faulty variant of the reporting loop: the job that has just finished is
\* reported, wherever it is in the queue.
report_finished(r, jobid) ==
    [r EXCEPT !.reported_tests = @ + 1, !.reported = Append(@, jobid)]

\* `while self.report_job() { self.reported_tests += 1; }`; jobid is the job
\* whose end set it off.
RECURSIVE report_jobs(_, _)
report_jobs(r, jobid) ==
    IF report_job(r)
    THEN report_jobs([r EXCEPT !.reported_tests = @ + 1,
                               !.reported = Append(@, r.reported_tests)], jobid)
    ELSE r

\* A faulty variant of the error count: a failure is counted when reported too.
count_error_twice(r, result) ==
    IF result = "Err" THEN [r EXCEPT !.errors = @ + 2] ELSE r

\* `if result.is_err() { self.errors += 1; }`.
count_error(r, result) ==
    IF result = "Err" THEN [r EXCEPT !.errors = @ + 1] ELSE r

\* TestRunner::finish_job.
finish_job(r, jobid, result) ==
    IF r.tests[jobid + 1].state # "Running"
    THEN panicked(r, "assertion failed: state == State::Running")
    ELSE report_jobs([count_error(r, result) EXCEPT !.tests[jobid + 1].state = Done(result)],
                     jobid)

\* runone::run on the job's path; the runner notes the call.
runone(r, jobid) == IF r.tests[jobid + 1].path \in r.fails THEN "Err" ELSE "Ok"

ran_job(r, jobid) == [r EXCEPT !.ran[jobid + 1] = @ + 1]

\* Reply::Starting, Reply::Done and Reply::Tick.
ReplyStarting(jobid) == [kind |-> "Starting", jobid |-> jobid, result |-> ""]

ReplyDone(jobid, result) == [kind |-> "Done", jobid |-> jobid, result |-> result]

ReplyTick == [kind |-> "Tick", jobid |-> 0, result |-> ""]

\* A faulty variant of the Starting arm: a starting job counts as progress.
on_starting_as_progress(r, jobid) ==
    IF r.tests[jobid + 1].state # "Queued"
    THEN panicked(r, "assertion failed: state == State::Queued")
    ELSE [r EXCEPT !.tests[jobid + 1].state = "Running", !.ticks_since_progress = 0]

\* handle_reply, Reply::Starting.
on_starting(r, jobid) ==
    IF r.tests[jobid + 1].state # "Queued"
    THEN panicked(r, "assertion failed: state == State::Queued")
    ELSE [r EXCEPT !.tests[jobid + 1].state = "Running"]

\* handle_reply, Reply::Done.
on_done(r, jobid, result) == finish_job([r EXCEPT !.ticks_since_progress = 0], jobid, result)

\* The STALLED report of the Tick arm, on the runner with the tick counted.
report_stalled(r) ==
    IF r.ticks_since_progress = TIMEOUT_SLOW THEN [r EXCEPT !.stalled = @ + 1] ELSE r

\* The panic of the Tick arm.
panic_stalled(r) ==
    IF r.ticks_since_progress >= TIMEOUT_PANIC THEN panicked(r, "worker threads stalled") ELSE r

\* handle_reply, Reply::Tick.
on_tick(r) == panic_stalled(report_stalled([r EXCEPT !.ticks_since_progress = @ + 1]))

\* TestRunner::handle_reply.
handle_reply(r, reply) ==
    IF reply.kind = "Starting" THEN on_starting(r, reply.jobid)
    ELSE IF reply.kind = "Done" THEN on_done(r, reply.jobid, reply.result)
    ELSE on_tick(r)

\* The Tick replies in a row, with Starting replies or not, after one more reply.
ticks_in_a_row(n, reply) ==
    IF reply.kind = "Done" THEN 0 ELSE IF reply.kind = "Tick" THEN n + 1 ELSE n

\* The runner handles the reply at the head of the channel.
receive(r) ==
    [handle_reply(r, Head(r.replies))
        EXCEPT !.replies = Tail(@), !.since_done = ticks_in_a_row(@, Head(r.replies))]

\* ConcurrentRunner::put.
put(r, jobid) == [r EXCEPT !.requests = Append(@, jobid)]

\* One turn of the first loop of schedule_jobs, for the job in state New.
schedule_job(r, jobid) ==
    IF r.threads
    THEN [put([r EXCEPT !.tests[jobid + 1].state = "Queued"], jobid) EXCEPT !.new_tests = jobid + 1]
    ELSE [finish_job(ran_job([r EXCEPT !.tests[jobid + 1].state = "Running"], jobid),
                     jobid, runone(r, jobid))
             EXCEPT !.new_tests = jobid + 1]

\* `for jobid in self.new_tests..self.tests.len()` of schedule_jobs.
RECURSIVE schedule_new(_, _)
schedule_new(r, jobid) ==
    IF jobid >= Len(r.tests) \/ r.panic # "" THEN r
    ELSE IF r.tests[jobid + 1].state # "New"
    THEN panicked(r, "assertion failed: state == State::New")
    ELSE schedule_new(schedule_job(r, jobid), jobid + 1)

\* A faulty variant of schedule_pass_job: the job is the first new one.
schedule_pass_job_next(r) ==
    IF r.new_tests >= Len(r.tests) THEN r
    ELSE [finish_job(ran_job([r EXCEPT !.tests[r.new_tests + 1].state = "Running"], r.new_tests),
                     r.new_tests, runone(r, r.new_tests))
             EXCEPT !.new_tests = @ + 1]

\* TestRunner::schedule_pass_job: `self.tests[0]` panics on an empty queue.
schedule_pass_job(r) ==
    IF r.tests = <<>> THEN panicked(r, "index out of bounds")
    ELSE finish_job(ran_job([r EXCEPT !.tests[1].state = "Running"], 0), 0, runone(r, 0))

\* An entry of a directory: its path and what its extension says; "err" is
\* an entry that cannot be read.
DirEntry(path, ext) == [path |-> path, ext |-> ext]

\* One turn of the loop over a directory's entries.
scan_entry(r, entry) ==
    IF entry.ext = "clif" THEN push_test(r, entry.path)
    ELSE IF entry.ext = "none" THEN push_dir(r, entry.path)
    ELSE r

\* `for entry_result in entries`, from the i-th entry on; an unreadable entry
\* is a path error and ends the loop.
RECURSIVE scan_entries(_, _, _)
scan_entries(r, entries, i) ==
    IF i > Len(entries) THEN r
    ELSE IF entries[i].ext = "err" THEN path_error(r)
    ELSE scan_entries(scan_entry(r, entries[i]), entries, i + 1)

\* One turn of scan_dirs before the callback, on the runner with the
\* directory popped: what read_dir gives for it.
scan_dir(r, dir) ==
    IF r.fs[dir].kind = "dir" THEN scan_entries(r, r.fs[dir].entries, 1)
    ELSE IF r.fs[dir].kind = "file" THEN r
    ELSE path_error(r)

\* `self.dir_stack.pop()` and the turn of scan_dirs on what it gave.
pop_and_scan(r) ==
    scan_dir([r EXCEPT !.dir_stack = SubSeq(@, 1, Len(@) - 1)], r.dir_stack[Len(r.dir_stack)])

\* The end of run and run_passes: `match self.errors`.
test_result(r) == IF r.errors = 0 THEN "Ok" ELSE "Err"

(***************************************************************************)
(* A client of TestRunner: it pushes tests and directories, starts the      *)
(* threads or not, and calls run or run_passes. The worker threads and the  *)
(* heartbeat thread of the ConcurrentRunner run next to it.                 *)
(***************************************************************************)
Dir(entries) == [kind |-> "dir", entries |-> entries]

\* What directory "a" may hold; "b" is a directory with one test, "f" a
\* regular file without extension, "x" does not exist.
DirsA ==
    {<<DirEntry("a1", "clif"), DirEntry("b", "none")>>,
     <<DirEntry("a.txt", "other"), DirEntry("a1", "clif"), DirEntry("", "err"),
       DirEntry("a2", "clif")>>,
     <<DirEntry("f", "none"), DirEntry("a1", "clif")>>}

FileSystem(a) ==
    [a |-> Dir(a), b |-> Dir(<<DirEntry("b1", "clif")>>),
     f |-> [kind |-> "file", entries |-> <<>>], x |-> [kind |-> "missing", entries |-> <<>>]]

PushedDirs == {<<>>, <<"a">>, <<"x", "a">>}

PushedTests == {SubSeq(<<"t1", "t2", "t3", "t4">>, 1, n) : n \in 0..MaxPushed}

\* The tests runone::run fails on.
FailSets == {{}, {"t1"}, {"t2", "a1"}}

RECURSIVE push_all(_, _, _, _)
push_all(r, paths, i, is_dir) ==
    IF i > Len(paths) THEN r
    ELSE push_all(IF is_dir THEN push_dir(r, paths[i]) ELSE push_test(r, paths[i]),
                  paths, i + 1, is_dir)

InitRunner ==
    /\ \E a \in DirsA, dirs \in PushedDirs, files \in PushedTests, fails \in FailSets,
          call \in {"run", "run_passes"}, threads \in BOOLEAN :
          /\ (call = "run_passes" => ~threads)
          /\ tr = push_all(push_all([NoRunner EXCEPT !.fs = FileSystem(a), !.fails = fails,
                                                     !.call = call, !.threads = threads],
                                    files, 1, FALSE),
                           dirs, 1, TRUE)
    /\ pc = "scan"
    /\ func = NewFunction
    /\ cfg = new_cfg
    /\ isa = [jump_tables_enabled |-> TRUE, pointer_type |-> "i64"]
    /\ pos = Nowhere
    /\ prev_pos = Nowhere
    /\ entered = <<>>
    /\ queried = {}
    /\ failed = {}
    /\ last = NoStep
    /\ steps = 0
    /\ sw = NoSwitch
    /\ red = NoReduce
    /\ dbg = NoDbg
    /\ gvn = NoGvn

\* The callback scan_dirs is given, which is also what follows scan_dirs:
\* the first loop of schedule_jobs in run, schedule_pass_job in run_passes.
schedule(r) ==
    IF r.call = "run" THEN schedule_new(r, r.new_tests) ELSE schedule_pass_job(r)

\* Where the main thread goes on after a step that left the runner as r.
goes_to(r, next) == IF r.panic # "" THEN "panic" ELSE next

\* The runner with the method's result, where it returns.
returning(r, next) ==
    IF next = "returned" /\ r.panic = "" THEN [r EXCEPT !.result = test_result(r)] ELSE r

\* The main thread takes a step that leaves the runner as r and goes to next.
MainStep(r, next) ==
    /\ tr' = returning(r, next)
    /\ pc' = goes_to(r, next)
    /\ UNCHANGED <<func, cfg, isa, pos, prev_pos, entered, queried, failed, last, steps, sw, red,
                   dbg, gvn>>

\* A turn of the loop of scan_dirs, with its callback.
ScanDir ==
    /\ pc = "scan"
    /\ tr.dir_stack # <<>>
    /\ MainStep(schedule(pop_and_scan(tr)), IF tr.call = "run" THEN "poll_scan" ELSE "scan")

\* The end of scan_dirs and what run and run_passes do next: schedule again;
\* run_passes then returns (report_slow_tests only prints).
ScanEnd ==
    /\ pc = "scan"
    /\ tr.dir_stack = <<>>
    /\ MainStep(schedule(tr), IF tr.call = "run" THEN "poll_last" ELSE "returned")

\* `while let Some(reply) = ...try_get()` of schedule_jobs finds a reply.
PollReply ==
    /\ pc \in {"poll_scan", "poll_last"}
    /\ tr.threads
    /\ tr.replies # <<>>
    /\ MainStep(receive(tr), pc)

\* try_get finds no reply, or there are no threads: schedule_jobs returns.
\* After the last one, run goes on to drain_threads, which without threads
\* does nothing and with threads shuts them down.
PollEmpty ==
    /\ pc \in {"poll_scan", "poll_last"}
    /\ ~tr.threads \/ tr.replies = <<>>
    /\ MainStep(IF pc = "poll_last" /\ tr.threads
                THEN [tr EXCEPT !.threads = FALSE, !.shut = TRUE] ELSE tr,
                IF pc = "poll_scan" THEN "scan"
                ELSE IF tr.threads THEN "drain" ELSE "returned")

\* `conc.get()` in drain_threads hands a reply to handle_reply.
DrainReply ==
    /\ pc = "drain"
    /\ tr.reported_tests < Len(tr.tests)
    /\ tr.replies # <<>>
    /\ MainStep(receive(tr), "drain")

\* The loop of drain_threads ends, the threads are joined and run returns.
DrainEnd ==
    /\ pc = "drain"
    /\ tr.reported_tests >= Len(tr.tests)
    /\ MainStep(tr, "returned")

\* The ConcurrentRunner is there and the main thread is about to look for a
\* reply. What the threads do while the main thread scans a directory and
\* queues jobs is taken to happen right after: the steps commute.
ThreadsGoing == (tr.threads \/ tr.shut) /\ pc \in {"poll_scan", "poll_last", "drain"}

\* A worker takes a request and says it is starting.
WorkerStart ==
    /\ ThreadsGoing
    /\ tr.requests # <<>>
    /\ Cardinality(tr.busy) < Workers
    /\ tr' = [tr EXCEPT !.requests = Tail(@), !.busy = @ \cup {Head(tr.requests)},
                        !.replies = Append(@, ReplyStarting(Head(tr.requests)))]
    /\ UNCHANGED <<func, cfg, isa, pos, prev_pos, pc, entered, queried, failed, last, steps, sw,
                   red,
                   dbg, gvn>>

\* A worker has run its job and sends the result.
WorkerDone ==
    /\ ThreadsGoing
    /\ \E jobid \in tr.busy :
          tr' = [ran_job(tr, jobid) EXCEPT !.busy = @ \ {jobid},
                                           !.replies = Append(@, ReplyDone(jobid,
                                                                           runone(tr, jobid)))]
    /\ UNCHANGED <<func, cfg, isa, pos, prev_pos, pc, entered, queried, failed, last, steps, sw,
                   red,
                   dbg, gvn>>

\* The heartbeat thread sends a Tick; here only into the empty channel,
\* which leaves the main thread every order of replies to handle.
Heartbeat ==
    /\ ThreadsGoing
    /\ tr.replies = <<>>
    /\ tr' = [tr EXCEPT !.replies = Append(@, ReplyTick)]
    /\ UNCHANGED <<func, cfg, isa, pos, prev_pos, pc, entered, queried, failed, last, steps, sw,
                   red,
                   dbg, gvn>>

NextRunner ==
    \/ ScanDir \/ ScanEnd \/ PollReply \/ PollEmpty \/ DrainReply \/ DrainEnd
    \/ WorkerStart \/ WorkerDone \/ Heartbeat

SpecRunner == InitRunner /\ [][NextRunner]_vars

(***************************************************************************)
(* The bugpoint reducer. The working function of reduce is `func`; `red`   *)
(* holds the locals of reduce: the phase with its cursor, the pass and      *)
(* iteration counters and was_reduced, and what the last iteration saw:     *)
(* its step result, its candidate func2 and the answer of check_for_crash.  *)
(* The compiler under test and the build are parameters: `crash` are the    *)
(* opcodes compile_and_emit panics on.                                      *)
(***************************************************************************)
\* `for pass_idx in 0..100` and `for _ in 0..10000`.
PASS_LIMIT == 100

INNER_LIMIT == 10000

Phase(kind, ebb, inst) == [kind |-> kind, ebb |-> ebb, inst |-> inst]

\* PhaseStepResult together with the phase and the function step leaves.
StepResult(result, phase, f, panic) ==
    [result |-> result, phase |-> phase, func |-> f, panic |-> panic]

\* Layout::remove_ebb; the EBB's instructions stay with it.
layout_remove_ebb(f, ebb) == [f EXCEPT !.layout = RemoveAt(@, IndexOf(@, ebb))]

\* next_inst_ret_prev: the cursor moves on to the next instruction, in this
\* EBB or the next; None (found FALSE) at the last instruction of the last EBB.
next_inst_ret_prev(f, phase) ==
    IF layout_next_inst(f, phase.inst) # 0
    THEN [found |-> TRUE, prev_ebb |-> phase.ebb, prev_inst |-> phase.inst,
          phase |-> [phase EXCEPT !.inst = layout_next_inst(f, phase.inst)]]
    ELSE IF layout_next_ebb(f, phase.ebb) # NoEbb
    THEN [found |-> TRUE, prev_ebb |-> phase.ebb, prev_inst |-> phase.inst,
          phase |-> [phase EXCEPT !.ebb = layout_next_ebb(f, phase.ebb),
                                  !.inst = first_inst(f, layout_next_ebb(f, phase.ebb))]]
    ELSE [found |-> FALSE, prev_ebb |-> phase.ebb, prev_inst |-> phase.inst, phase |-> phase]

ebb_count(f) == Len(f.layout)

RECURSIVE inst_count_from(_, _)
inst_count_from(f, i) ==
    IF i > Len(f.layout) THEN 0 ELSE Len(f.ebb_insts[f.layout[i]]) + inst_count_from(f, i + 1)

inst_count(f) == inst_count_from(f, 1)

\* A faulty variant of the RemoveInst arm: an emptied EBB stays in the layout.
remove_inst_only(f, n) ==
    StepResult("Shrinked", n.phase, layout_remove_inst(f, n.prev_inst), "")

\* Phase::step, the RemoveInst arm with an instruction to remove.
remove_inst_and_empty_ebb(f, n) ==
    IF layout_remove_inst(f, n.prev_inst).ebb_insts[n.prev_ebb] = <<>>
    THEN StepResult("Shrinked", n.phase,
                    layout_remove_ebb(layout_remove_inst(f, n.prev_inst), n.prev_ebb), "")
    ELSE StepResult("Shrinked", n.phase, layout_remove_inst(f, n.prev_inst), "")

\* Phase::step, the ReplaceInstWithIconst arm with an instruction.
replace_with_iconst(f, n) ==
    IF Len(f.results[n.prev_inst]) = 1
    THEN StepResult("Replaced", n.phase,
                    replace(f, n.prev_inst, Iconst(value_type(f, first_result(f, n.prev_inst)), 0)),
                    "")
    ELSE StepResult("NoChange", n.phase, f, "")

\* Phase::step, the ReplaceInstWithTrap arm with an instruction.
replace_with_trap(f, n) ==
    StepResult("Replaced", n.phase, replace(f, n.prev_inst, Trap("user0")), "")

\* Phase::step, the RemoveEbb arm: the cursor moves to the next EBB and that
\* EBB is removed. Layout::remove_ebb asserts, in a build with debug
\* assertions, that the EBB is empty.
remove_next_ebb(f, phase, debug) ==
    IF layout_next_ebb(f, phase.ebb) = NoEbb THEN StepResult("Finished", phase, f, "")
    ELSE IF debug /\ f.ebb_insts[layout_next_ebb(f, phase.ebb)] # <<>>
    THEN StepResult("Panic", phase, f, "EBB must be empty")
    ELSE StepResult("Shrinked", [phase EXCEPT !.ebb = layout_next_ebb(f, phase.ebb)],
                    layout_remove_ebb(f, layout_next_ebb(f, phase.ebb)), "")

\* The phase that follows when the cursor has reached the end.
first_of(kind, f) == Phase(kind, entry_block(f), first_inst(f, entry_block(f)))

\* The arms of Phase::step that walk the instructions.
inst_phase_step(f, phase, n) ==
    IF phase.kind = "RemoveInst"
    THEN IF n.found THEN remove_inst_and_empty_ebb(f, n)
         ELSE StepResult("NextPhase", first_of("ReplaceInstWithIconst", f), f, "")
    ELSE IF phase.kind = "ReplaceInstWithIconst"
    THEN IF n.found THEN replace_with_iconst(f, n)
         ELSE StepResult("NextPhase", first_of("ReplaceInstWithTrap", f), f, "")
    ELSE IF n.found THEN replace_with_trap(f, n)
         ELSE StepResult("NextPhase", Phase("RemoveEbb", entry_block(f), 0), f, "")

\* Phase::step on the clone f of the working function.
phase_step(f, phase, debug) ==
    IF entry_block(f) = NoEbb \/ first_inst(f, entry_block(f)) = 0
    THEN StepResult("Panic", phase, f, "called Option::unwrap() on a None value")
    ELSE IF phase.kind = "Started"
    THEN StepResult("NextPhase", first_of("RemoveInst", f), f, "")
    ELSE IF phase.kind = "RemoveEbb" THEN remove_next_ebb(f, phase, debug)
    ELSE inst_phase_step(f, phase, next_inst_ret_prev(f, phase))

\* The instructions of the layout in layout order.
RECURSIVE layout_order(_, _)
layout_order(f, i) ==
    IF i > Len(f.layout) THEN <<>> ELSE f.ebb_insts[f.layout[i]] \o layout_order(f, i + 1)

\* The verifier, as far as the reducer's edits can offend it: an EBB ends in
\* its only terminator, an instruction has the results of its opcode, a
\* value is used after its definition (layout order stands for dominance in
\* the functions reduced here), a branch goes to an EBB of the layout, and
\* iconst has an integer type.
ebb_verifies(f, ebb) ==
    /\ f.ebb_insts[ebb] # <<>>
    /\ \A i \in 1..Len(f.ebb_insts[ebb]) :
          is_terminator(f.insts[f.ebb_insts[ebb][i]].opcode) <=> i = Len(f.ebb_insts[ebb])

value_verifies(f, order, at, v) ==
    IF f.vals[v].kind = "param" THEN f.vals[v].owner \in Range(f.layout)
    ELSE \E j \in 1..(at - 1) : order[j] = f.vals[v].owner

inst_verifies(f, order, at) ==
    /\ Len(f.results[order[at]]) = num_results(f.insts[order[at]])
    /\ \A v \in Range(f.insts[order[at]].args) : value_verifies(f, order, at, v)
    /\ is_branch(f.insts[order[at]].opcode) => f.insts[order[at]].dest \in Range(f.layout)
    /\ f.insts[order[at]].opcode = "iconst" =>
           f.insts[order[at]].ty \in {"i8", "i16", "i32", "i64"}

verify_function(f) ==
    /\ f.layout # <<>>
    /\ \A e \in Range(f.layout) : ebb_verifies(f, e)
    /\ \A at \in 1..Len(layout_order(f, 1)) : inst_verifies(f, layout_order(f, 1), at)

\* Context::compile_and_emit under catch_unwind: the compiler under test
\* panics on the functions that hold one of its crashing opcodes.
compile_panics(f, crash) == \E inst \in layout_insts(f) : f.insts[inst].opcode \in crash

\* check_for_crash.
check_for_crash(f, crash) ==
    IF ~verify_function(f) THEN "Verifier"
    ELSE IF compile_panics(f, crash) THEN "Panic"
    ELSE "Succeed"

\* A faulty variant of the match on check_for_crash: a candidate that
\* compiles is adopted too.
adopts_unless_invalid(res) == res # "Verifier"

\* `Res::Panic => { func = func2; ... }`, the other arms `continue`.
adopts(res) == res = "Panic"

\* The locals of reduce at the start of a pass.
new_pass(r, pass_idx) ==
    [r EXCEPT !.pass_idx = pass_idx, !.iter = 0, !.was_reduced = FALSE,
              !.phase = Phase("Started", NoEbb, 0)]

\* One iteration of 'inner_loop on the working function f: the function and
\* the locals it leaves, and where reduce is then.
checked(f, r, st, res) ==
    [func |-> IF adopts(res) THEN st.func ELSE f,
     red |-> [r EXCEPT !.phase = st.phase, !.iter = @ + 1, !.step = st.result, !.res = res,
                       !.cand = st.func,
                       !.was_reduced = @ \/ (adopts(res) /\ st.result = "Shrinked"),
                       !.adopted = IF adopts(res) THEN 1 ELSE @,
                       !.shrunk = IF adopts(res) /\ st.result = "Shrinked" THEN 1 ELSE @],
     pc |-> "reduce"]

\* The end of 'inner_loop: the next pass, or the end of reduce.
end_of_pass(f, r, result) ==
    IF r.was_reduced /\ r.pass_idx + 1 < PASS_LIMIT
    THEN [func |-> f, red |-> [new_pass(r, r.pass_idx + 1) EXCEPT !.step = result, !.res = ""],
          pc |-> "reduce"]
    ELSE [func |-> f, red |-> [r EXCEPT !.step = result, !.res = ""], pc |-> "reduced"]

stepped(f, r, st) ==
    IF st.result = "Panic"
    THEN [func |-> f, red |-> [r EXCEPT !.step = "Panic", !.res = "", !.panic = st.panic],
          pc |-> "panic"]
    ELSE IF st.result = "Finished" THEN end_of_pass(f, r, "Finished")
    ELSE IF st.result \in {"NoChange", "NextPhase"}
    THEN [func |-> f,
          red |-> [r EXCEPT !.phase = st.phase, !.iter = @ + 1, !.step = st.result, !.res = ""],
          pc |-> "reduce"]
    ELSE checked(f, r, st, check_for_crash(st.func, r.crash))

iteration(f, r) ==
    IF r.iter >= INNER_LIMIT THEN end_of_pass(f, r, "Limit")
    ELSE stepped(f, r, phase_step(f, r.phase, r.debug_assertions))

\* The functions to reduce: a chain of EBBs, the first with the body ops,
\* the others with theirs, each but the last ending in a jump to the next.
MaxReduceBody == 3

MaxReduceEbbs == 2

ReduceOps == {"iconst", "iadd_imm", "popcnt", "icmp_imm"}

\* The last integer value defined so far.
last_int(f) ==
    CHOOSE v \in 1..num_values(f) :
        /\ f.vals[v].ty = "i32"
        /\ \A w \in (v + 1)..num_values(f) : f.vals[w].ty # "i32"

\* The instruction for a body op: it uses the last integer value; the function
\* starts with an iconst.
reduce_inst(f, op) ==
    IF op = "iconst" \/ num_values(f) = 0 THEN Iconst("i32", 1)
    ELSE IF op = "iadd_imm" THEN IaddImm("i32", last_int(f), 1)
    ELSE IF op = "popcnt" THEN Popcnt("i32", last_int(f))
    ELSE IcmpImm("eq", last_int(f), 1)

RECURSIVE reduce_body(_, _, _, _)
reduce_body(f, ebb, body, i) ==
    IF i > Len(body) THEN f
    ELSE reduce_body(append_built(f, ebb, reduce_inst(f, body[i])), ebb, body, i + 1)

RECURSIVE reduce_input(_, _, _)
reduce_input(f, bodies, i) ==
    IF i > Len(bodies) THEN f
    ELSE reduce_input(
             append_built(reduce_body(append_ebb(make_ebb(f), i), i, bodies[i], 1), i,
                          IF i < Len(bodies) THEN Jump(i + 1, <<>>) ELSE Return(<<>>)),
             bodies, i + 1)

ReduceBodies ==
    {<<first>> \o rest : first \in SeqsUpTo(ReduceOps, MaxReduceBody),
                         rest \in SeqsUpTo({<<>>, <<"popcnt">>, <<"iconst">>}, MaxReduceEbbs - 1)}

InitReduce ==
    /\ \E bodies \in ReduceBodies, crash \in {{"popcnt"}, {"iadd_imm"}}, debug \in BOOLEAN :
          /\ func = reduce_input(NewFunction, bodies, 1)
          /\ red = [new_pass(NoReduce, 0)
                       EXCEPT !.crash = crash, !.debug_assertions = debug,
                              !.cand = reduce_input(NewFunction, bodies, 1),
                              !.orig = <<ebb_count(reduce_input(NewFunction, bodies, 1)),
                                         inst_count(reduce_input(NewFunction, bodies, 1))>>]
    /\ pc = "reduce"
    /\ cfg = new_cfg
    /\ isa = [jump_tables_enabled |-> TRUE, pointer_type |-> "i64"]
    /\ pos = Nowhere
    /\ prev_pos = Nowhere
    /\ entered = <<>>
    /\ queried = {}
    /\ failed = {}
    /\ last = NoStep
    /\ steps = 0
    /\ sw = NoSwitch
    /\ tr = NoRunner
    /\ dbg = NoDbg
    /\ gvn = NoGvn

\* reduce goes through one iteration of its inner loop.
ReduceIteration ==
    /\ pc = "reduce"
    /\ \E n \in {iteration(func, red)} :
          /\ func' = n.func
          /\ red' = n.red
          /\ pc' = n.pc
    /\ UNCHANGED <<cfg, isa, pos, prev_pos, entered, queried, failed, last, steps, sw, tr,
                   dbg, gvn>>

\* The phase has nothing to try at the cursor, or hands over to the next phase.
ReduceContinue ==
    /\ iteration(func, red).red.step \in {"NoChange", "NextPhase"}
    /\ ReduceIteration

\* The phase made a candidate and check_for_crash has judged it.
ReduceCandidate ==
    /\ iteration(func, red).red.step \in {"Shrinked", "Replaced"}
    /\ ReduceIteration

\* The last phase is finished: another pass, or the end of reduce.
ReduceEndOfPass ==
    /\ iteration(func, red).red.step \in {"Finished", "Limit"}
    /\ ReduceIteration

\* Phase::step panics, and reduce with it.
ReducePanic ==
    /\ iteration(func, red).red.step \in {"Panic"}
    /\ ReduceIteration

NextReduce == ReduceContinue \/ ReduceCandidate \/ ReduceEndOfPass \/ ReducePanic

SpecReduce == InitReduce /\ [][NextReduce]_vars

(***************************************************************************)
(* The trace switch of dbg.rs. STATE is an atomic accessed with Relaxed     *)
(* ordering: `mo` is its modification order, and a load returns any value   *)
(* of it not older than what the loading thread has already seen. The       *)
(* environment does not change. A thread is [pc, seen, loaded, enable].     *)
(***************************************************************************)
DbgThreads == 2

MaxCalls == 3

\* The values of CRETONNE_DBG: not set, or set to one of these strings.
EnvValues == {"unset", "0", "1", ""}

\* A faulty variant of the match on env::var_os: only "1" enables.
env_enables_one_only(env) == env = "1"

\* initialize: `Some(s) => s != OsStr::new("0"), None => false`.
env_enables(env) == env # "unset" /\ env # "0"

\* The value STATE holds now: the last of its modification order.
STATE_now == dbg.mo[Len(dbg.mo)]

IdleThread == [pc |-> "idle", seen |-> 1, loaded |-> 0, enable |-> FALSE]

\* enabled() returns `value` in thread t.
dbg_return(d, t, value) ==
    [d EXCEPT !.threads[t].pc = "idle", !.returns = @ \cup {value}]

InitDbg ==
    /\ \E env \in EnvValues, debug \in BOOLEAN :
          dbg = [NoDbg EXCEPT !.env = env, !.debug_assertions = debug,
                              !.threads = [t \in 1..DbgThreads |-> IdleThread]]
    /\ pc = "dbg"
    /\ func = NewFunction
    /\ cfg = new_cfg
    /\ isa = [jump_tables_enabled |-> TRUE, pointer_type |-> "i64"]
    /\ pos = Nowhere
    /\ prev_pos = Nowhere
    /\ entered = <<>>
    /\ queried = {}
    /\ failed = {}
    /\ last = NoStep
    /\ steps = 0
    /\ sw = NoSwitch
    /\ tr = NoRunner
    /\ red = NoReduce
    /\ gvn = NoGvn

DbgStep(d) ==
    /\ dbg' = d
    /\ UNCHANGED <<func, cfg, isa, pos, prev_pos, pc, entered, queried, failed, last, steps, sw,
                   tr, red, gvn>>

\* A thread calls enabled(): without debug assertions it is the constant false.
CallEnabled(t) ==
    /\ dbg.threads[t].pc = "idle"
    /\ dbg.calls < MaxCalls
    /\ DbgStep(IF dbg.debug_assertions
               THEN [dbg EXCEPT !.calls = @ + 1, !.threads[t].pc = "load"]
               ELSE dbg_return([dbg EXCEPT !.calls = @ + 1], t, FALSE))

\* `match STATE.load(Relaxed)`: 0 goes to initialize(), s returns s > 0.
LoadState(t) ==
    /\ dbg.threads[t].pc = "load"
    /\ \E i \in dbg.threads[t].seen..Len(dbg.mo) :
          DbgStep(IF dbg.mo[i] = 0
                  THEN [dbg EXCEPT !.threads[t].seen = i, !.threads[t].loaded = 0,
                                   !.threads[t].pc = "initialize"]
                  ELSE dbg_return([dbg EXCEPT !.threads[t].seen = i,
                                              !.threads[t].loaded = dbg.mo[i]],
                                  t, dbg.mo[i] > 0))

\* initialize reads the environment variable.
ReadEnv(t) ==
    /\ dbg.threads[t].pc = "initialize"
    /\ DbgStep([dbg EXCEPT !.threads[t].enable = env_enables(dbg.env),
                           !.threads[t].pc = "store",
                           !.consulted = @ \cup {[thread |-> t, state |-> STATE_now]}])

\* initialize stores 1 or -1 and returns `enable`.
StoreState(t) ==
    /\ dbg.threads[t].pc = "store"
    /\ DbgStep(dbg_return([dbg EXCEPT !.mo = Append(@, IF dbg.threads[t].enable THEN 1 ELSE -1),
                                      !.threads[t].seen = Len(dbg.mo) + 1],
                          t, dbg.threads[t].enable))

NextDbg ==
    \E t \in 1..DbgThreads : CallEnabled(t) \/ LoadState(t) \/ ReadEnv(t) \/ StoreState(t)

SpecDbg == InitDbg /\ [][NextDbg]_vars

(***************************************************************************)
(* Simple GVN. The function is `func`; `gvn` holds the locals of            *)
(* do_simple_gvn: visible_values as a set of [key, inst], the post-order of *)
(* the dominator tree and the index i into it (walked from its end), the    *)
(* cursor `at` (0 at the top of the EBB, else the instruction it is on),    *)
(* and what the walk has done: the instructions visited with their keys,    *)
(* those recorded, those removed and the entries overwritten.               *)
(***************************************************************************)
\* Opcode::can_trap, can_load, can_store, other_side_effects.
can_trap(op) == op \in {"trap", "trapz", "trapnz", "udiv"}

can_load(op) == op \in {"load", "stack_load"}

can_store(op) == op \in {"store"}

other_side_effects(op) == op \in {"debugtrap"}

\* A faulty variant of trivially_unsafe_for_gvn: trapping opcodes pass.
unsafe_unless_trapping(op) ==
    is_call(op) \/ is_branch(op) \/ is_terminator(op) \/ is_return(op) \/ other_side_effects(op)

\* trivially_unsafe_for_gvn.
trivially_unsafe_for_gvn(op) ==
    is_call(op) \/ is_branch(op) \/ is_terminator(op) \/ is_return(op) \/ can_trap(op)
    \/ other_side_effects(op)

\* DataFlowGraph::resolve_aliases: an alias value holds its original in `owner`.
RECURSIVE resolve_aliases(_, _)
resolve_aliases(f, v) ==
    IF f.vals[v].kind = "alias" THEN resolve_aliases(f, f.vals[v].owner) ELSE v

\* DataFlowGraph::resolve_aliases_in_arguments.
resolve_aliases_in_arguments(f, inst) ==
    [f EXCEPT !.insts[inst].args = [k \in 1..Len(@) |-> resolve_aliases(f, @[k])]]

\* DataFlowGraph::replace_with_aliases: the results of dest_inst are detached
\* and become aliases of the results of src_inst.
replace_with_aliases(f, dest_inst, src_inst) ==
    [f EXCEPT !.results[dest_inst] = <<>>,
              !.vals = [v \in 1..Len(@) |->
                           IF \E k \in 1..Len(f.results[dest_inst]) : f.results[dest_inst][k] = v
                           THEN ValueData("alias",
                                          f.results[src_inst][IndexOf(f.results[dest_inst], v)],
                                          0, @[v].ty)
                           ELSE @[v]]]

\* The position of an instruction in its EBB.
inst_pos(f, inst) == IndexOf(f.ebb_insts[inst_ebb(f, inst)], inst)

\* The EBBs reached from the EBBs of `from` along `edges`.
RECURSIVE reachable(_, _)
reachable(edges, from) ==
    IF {e[2] : e \in {x \in edges : x[1] \in from}} \subseteq from THEN from
    ELSE reachable(edges, from \cup {e[2] : e \in {x \in edges : x[1] \in from}})

\* The edges a path can take without executing instruction a: all but those
\* of the branches at or after a in its EBB.
edges_avoiding(f, a) ==
    {<<p[3], p[1]>> : p \in {q \in compute(f).preds :
                                 q[3] # inst_ebb(f, a) \/ inst_pos(f, q[2]) < inst_pos(f, a)}}

\* DominatorTree::dominates on two instructions of the layout: every path
\* from the entry to b executes a.
dominates(f, a, b) ==
    IF inst_ebb(f, a) = inst_ebb(f, b) THEN inst_pos(f, a) <= inst_pos(f, b)
    ELSE /\ inst_ebb(f, b) \in reachable(compute(f).succs, {entry_block(f)})
         /\ inst_ebb(f, b) \notin reachable(edges_avoiding(f, a), {entry_block(f)})

\* The successors of an EBB in the order of its branches, or in the reverse
\* order: the depth-first search of the dominator tree takes them one by one.
RECURSIVE succs_in_order(_, _, _)
succs_in_order(f, ebb, k) ==
    IF k > Len(f.ebb_insts[ebb]) THEN <<>>
    ELSE (IF is_branch(f.insts[f.ebb_insts[ebb][k]].opcode)
          THEN <<f.insts[f.ebb_insts[ebb][k]].dest>> ELSE <<>>)
         \o succs_in_order(f, ebb, k + 1)

successors(f, ebb, reversed) ==
    IF reversed THEN Reverse(succs_in_order(f, ebb, 1)) ELSE succs_in_order(f, ebb, 1)

\* DominatorTree::cfg_postorder: the EBBs reachable from the entry in the
\* post-order of a depth-first search; `post` is the order so far, `seen`
\* the EBBs the search has entered.
RECURSIVE dfs(_, _, _, _)
RECURSIVE dfs_succs(_, _, _, _, _)
dfs(f, reversed, ebb, st) ==
    [dfs_succs(f, reversed, successors(f, ebb, reversed), 1,
               [st EXCEPT !.seen = @ \cup {ebb}])
        EXCEPT !.post = Append(@, ebb)]

dfs_succs(f, reversed, succs, k, st) ==
    IF k > Len(succs) THEN st
    ELSE dfs_succs(f, reversed, succs, k + 1,
                   IF succs[k] \in st.seen THEN st ELSE dfs(f, reversed, succs[k], st))

cfg_postorder(f, reversed) == dfs(f, reversed, entry_block(f), [seen |-> {}, post |-> <<>>]).post

\* A faulty variant of the test on the occupied entry: dominance is not asked.
replaceable_always(f, existing, inst) == TRUE

\* `domtree.dominates(*entry.get(), inst, pos.layout)`.
replaceable(f, existing, inst) == dominates(f, existing, inst)

\* The entry of visible_values for a key.
entry_of(g, key) == CHOOSE e \in g.visible_values : e.key = key

occupied(g, key) == \E e \in g.visible_values : e.key = key

\* Cursor::next_inst from the position `at` in the EBB being walked.
gvn_next_inst(f, g) ==
    IF g.at = 0 THEN first_inst(f, g.postorder[g.i]) ELSE layout_next_inst(f, g.at)

\* Cursor::remove_inst_and_step_back: the position before the instruction.
step_back(f, inst) ==
    IF inst_pos(f, inst) = 1 THEN 0 ELSE f.ebb_insts[inst_ebb(f, inst)][inst_pos(f, inst) - 1]

\* The outcome of one turn of the loops of do_simple_gvn.
GvnTurn(outcome, f, g, next_pc) == [outcome |-> outcome, func |-> f, gvn |-> g, pc |-> next_pc]

\* The instruction has gone through its turn as `outcome`.
turned(outcome, f, g, inst) ==
    GvnTurn(outcome, f,
            [g EXCEPT !.at = inst, !.visited = Append(@, [inst |-> inst, key |-> f.insts[inst]])],
            "gvn")

\* The Occupied arm: the instruction is replaced by the existing one, or
\* the pass returns when perform_optimization says no, or the entry is
\* overwritten.
on_occupied(f, g, inst, existing) ==
    IF replaceable(f, existing, inst)
    THEN IF g.limited /\ g.allowed = 0
         THEN [turned("stop", f, g, inst) EXCEPT !.pc = "gvn_done"]
         ELSE GvnTurn("remove",
                      layout_remove_inst(replace_with_aliases(f, inst, existing), inst),
                      [g EXCEPT !.at = step_back(f, inst),
                                !.allowed = IF g.limited THEN @ - 1 ELSE @,
                                !.visited = Append(@, [inst |-> inst, key |-> f.insts[inst]]),
                                !.removed = @ \cup {inst},
                                !.existing = existing],
                      "gvn")
    ELSE turned("overwrite", f,
                [g EXCEPT !.visible_values =
                              (@ \ {entry_of(g, f.insts[inst])})
                              \cup {[key |-> f.insts[inst], inst |-> inst]},
                          !.recorded = @ \cup {inst},
                          !.discarded = @ \cup {[key |-> f.insts[inst], inst |-> existing,
                                                 at |-> Len(g.visited) + 1]}],
                inst)

\* The body of `while let Some(inst) = pos.next_inst()`, on the function
\* with the aliases in the instruction's arguments resolved.
visit_inst(f, g, inst) ==
    IF trivially_unsafe_for_gvn(f.insts[inst].opcode) \/ can_store(f.insts[inst].opcode)
       \/ can_load(f.insts[inst].opcode)
    THEN turned("skip", f, g, inst)
    ELSE IF occupied(g, f.insts[inst])
    THEN on_occupied(f, g, inst, entry_of(g, f.insts[inst]).inst)
    ELSE turned("record", f,
                [g EXCEPT !.visible_values = @ \cup {[key |-> f.insts[inst], inst |-> inst]},
                          !.recorded = @ \cup {inst}],
                inst)

\* One turn: the next instruction of the EBB, or on to the next EBB of the
\* reverse post-order, or the end of the pass.
gvn_turn(f, g) ==
    IF gvn_next_inst(f, g) = 0
    THEN GvnTurn("next_ebb", f, [g EXCEPT !.i = @ - 1, !.at = 0],
                 IF g.i = 1 THEN "gvn_done" ELSE "gvn")
    ELSE visit_inst(resolve_aliases_in_arguments(f, gvn_next_inst(f, g)), g, gvn_next_inst(f, g))

\* The functions GVN runs on: ebb1 defines v1 and branches to ebb2 and ebb3;
\* ebb2, ebb3 and ebb4 hold a body each and end as the shape says.
MaxGvnBody == 2

GvnPrograms == {<<"iadd_imm", "popcnt", "iadd_imm">>, <<"udiv", "load", "udiv">>}

GvnBodies == {SubSeq(p, 1, n) : p \in GvnPrograms, n \in 0..MaxGvnBody}

GvnShapes ==
    [a : {<<3, 2>>, <<2, 3>>}, x : {<<3, 4>>, <<4, 3>>, <<4>>, <<>>}, y : {<<>>, <<4>>}]

\* The value a body op works on: the result before it in its EBB, or v1.
last_in_ebb(f, ebb) ==
    IF f.ebb_insts[ebb] # <<>> /\ has_results(f, last_inst(f, ebb))
    THEN first_result(f, last_inst(f, ebb)) ELSE 1

gvn_inst(f, ebb, op) ==
    IF op = "iadd_imm" THEN IaddImm("i32", 1, 1)
    ELSE IF op = "popcnt" THEN Popcnt("i32", last_in_ebb(f, ebb))
    ELSE IF op = "udiv" THEN Udiv("i32", 1, 1)
    ELSE Load("i32", "", 1, 0)

RECURSIVE gvn_body(_, _, _, _)
gvn_body(f, ebb, body, k) ==
    IF k > Len(body) THEN f
    ELSE gvn_body(append_built(f, ebb, gvn_inst(f, ebb, body[k])), ebb, body, k + 1)

\* The end of an EBB that goes to `dests`: return, jump, or brz and jump.
gvn_exit(f, ebb, dests) ==
    IF dests = <<>> THEN append_built(f, ebb, Return(<<>>))
    ELSE IF Len(dests) = 1 THEN append_built(f, ebb, Jump(dests[1], <<>>))
    ELSE append_built(append_built(f, ebb, Brz(1, dests[1], <<>>)), ebb, Jump(dests[2], <<>>))

gvn_ebb(f, ebb, body, dests) == gvn_exit(gvn_body(append_ebb(make_ebb(f), ebb), ebb, body, 1), ebb, dests)

gvn_input(shape, bx, by, bz) ==
    gvn_ebb(gvn_ebb(gvn_ebb(gvn_exit(append_built(append_ebb(make_ebb(NewFunction), 1), 1,
                                                  Iconst("i32", 1)),
                                     1, shape.a),
                            2, bx, shape.x),
                    3, by, shape.y),
            4, bz, <<>>)

InitGvn ==
    /\ \E shape \in GvnShapes, bx \in GvnBodies, by \in GvnBodies, bz \in GvnBodies,
          enabled \in BOOLEAN, limited \in BOOLEAN, reversed \in BOOLEAN :
          /\ (~enabled => ~limited /\ ~reversed)
          /\ func = gvn_input(shape, bx, by, bz)
          /\ gvn = [NoGvn EXCEPT !.enabled = enabled, !.limited = limited,
                                 !.allowed = IF limited THEN 1 ELSE 0,
                                 !.reversed = reversed]
    /\ pc = "gvn_start"
    /\ cfg = compute(func)
    /\ isa = [jump_tables_enabled |-> TRUE, pointer_type |-> "i64"]
    /\ pos = Nowhere
    /\ prev_pos = Nowhere
    /\ entered = <<>>
    /\ queried = {}
    /\ failed = {}
    /\ last = NoStep
    /\ steps = 0
    /\ sw = NoSwitch
    /\ tr = NoRunner
    /\ red = NoReduce
    /\ dbg = NoDbg

GvnFrame ==
    UNCHANGED <<cfg, isa, pos, prev_pos, entered, queried, failed, last, steps, sw, tr, red, dbg>>

\* perform_pass! says no: do_simple_gvn returns at once.
GvnSkipPass ==
    /\ pc = "gvn_start"
    /\ ~gvn.enabled
    /\ pc' = "gvn_done"
    /\ UNCHANGED <<func, gvn>>
    /\ GvnFrame

\* The dominator tree is computed and the walk starts at the top of the
\* last EBB of the post-order.
GvnStart ==
    /\ pc = "gvn_start"
    /\ gvn.enabled
    /\ gvn' = [gvn EXCEPT !.postorder = cfg_postorder(func, gvn.reversed),
                          !.i = Len(cfg_postorder(func, gvn.reversed)), !.at = 0]
    /\ pc' = "gvn"
    /\ UNCHANGED func
    /\ GvnFrame

GvnTurned ==
    /\ pc = "gvn"
    /\ \E n \in {gvn_turn(func, gvn)} :
          /\ func' = n.func
          /\ gvn' = n.gvn
          /\ pc' = n.pc
    /\ GvnFrame

\* The cursor is at the end of the EBB.
GvnNextEbb ==
    /\ pc = "gvn"
    /\ gvn_turn(func, gvn).outcome = "next_ebb"
    /\ GvnTurned

\* An instruction GVN does not consider.
GvnSkip ==
    /\ pc = "gvn"
    /\ gvn_turn(func, gvn).outcome = "skip"
    /\ GvnTurned

\* The Vacant arm: the instruction is recorded.
GvnRecord ==
    /\ pc = "gvn"
    /\ gvn_turn(func, gvn).outcome = "record"
    /\ GvnTurned

\* The Occupied arm, the existing instruction dominating: the instruction is
\* replaced by aliases and removed.
GvnRemove ==
    /\ pc = "gvn"
    /\ gvn_turn(func, gvn).outcome = "remove"
    /\ GvnTurned

\* The Occupied arm, perform_optimization! saying no: the pass returns.
GvnStop ==
    /\ pc = "gvn"
    /\ gvn_turn(func, gvn).outcome = "stop"
    /\ GvnTurned

\* The Occupied arm, the existing instruction not dominating: overwritten.
GvnOverwrite ==
    /\ pc = "gvn"
    /\ gvn_turn(func, gvn).outcome = "overwrite"
    /\ GvnTurned

NextGvn ==
    \/ GvnSkipPass \/ GvnStart \/ GvnNextEbb \/ GvnSkip \/ GvnRecord \/ GvnRemove \/ GvnStop
    \/ GvnOverwrite

SpecGvn == InitGvn /\ [][NextGvn]_vars

(***************************************************************************)
(* What the claims speak of.                                                *)
(***************************************************************************)
\* The instruction the inner loop is about to hand to legalize_inst, or 0.
Visiting ==
    IF pc = "next_inst" /\ walk_next_inst(func, pos).kind = "At"
    THEN walk_next_inst(func, pos).at
    ELSE 0

\* C1: whenever legalize_function returns, every instruction in the layout
\* has a non-none encoding.
C1_EncodingCoverage ==
    pc = "done" => \A i \in layout_insts(func) : encoding_of(func, i) # 0

\* C2: once an instruction has neither an encoding, nor an action that
\* changes it, nor a libcall, the function is rejected instead of the walk
\* going on or returning normally.
C2_UnlegalizableRejected == failed # {} => pc = "rejected"

\* A step that reports a change leaves the cursor at prev_pos, unchanged, and
\* the next instruction from there is the rewritten instruction or one the
\* rewrite created.
C3_DoublesBack ==
    (Visiting # 0 /\ legalize_inst(Visiting, func, cfg, isa).changed)
        => /\ pos' = prev_pos
           /\ prev_pos' = prev_pos
           /\ walk_next_inst(func', pos').kind = "At"
           /\ \/ walk_next_inst(func', pos').at = Visiting
              \/ walk_next_inst(func', pos').at > num_insts(func)

\* When the walk has ended every instruction of the layout has been handed
\* to the encoding oracle.
C3_AllQueried == pc = "done" => layout_insts(func) \subseteq queried

\* C3: a step that reports a change (ABI handler, action or libcall) leaves
\* the cursor at prev_pos, so the next instruction processed is the first
\* one now following prev_pos; and when the walk has ended every instruction
\* of the layout, inserted ones included, has been handed to the oracle.
C3_RevisitAfterChange == [][C3_DoublesBack]_vars /\ []C3_AllQueried

\* A change was reported, the driver went back, and the walk then ended.
C3_Witness ==
    /\ pc = "done"
    /\ num_insts(func) > 9
    /\ \E i \in layout_insts(func) : i > 9 /\ i \in queried

\* C4: the EBBs entered so far are, in order, the first EBBs of the layout,
\* each once; when the walk has ended they are the whole layout.
C4_EbbWalkComplete ==
    /\ pc # "start" => /\ Len(entered) <= Len(func.layout)
                       /\ entered = SubSeq(func.layout, 1, Len(entered))
                       /\ Cardinality(Range(entered)) = Len(entered)
    /\ pc = "done" => entered = func.layout

\* The walk ended on a layout that holds EBBs created during the walk.
C4_Witness == pc = "done" /\ Len(func.layout) >= 6 /\ entered = func.layout

\* C5: every EBB of the layout is non-empty, its last instruction is its
\* only terminator, the entry EBB is first, and every EBB a branch can go to
\* is in the layout.
WellFormedLayout(f) ==
    /\ f.layout # <<>>
    /\ f.layout[1] = 1
    /\ \A e \in Range(f.layout) :
        /\ f.ebb_insts[e] # <<>>
        /\ \A k \in 1..Len(f.ebb_insts[e]) :
             is_terminator(f.insts[f.ebb_insts[e][k]].opcode) <=> k = Len(f.ebb_insts[e])
    /\ \A i \in layout_insts(f) : branch_targets(f, i) \subseteq Range(f.layout)

C5_LayoutWellFormed == WellFormedLayout(func)

\* A CFG expansion of each kind has run and the walk has ended.
C5_Witness ==
    /\ pc = "done"
    /\ Len(func.layout) >= 7
    /\ \E i \in layout_insts(func) : func.insts[i].opcode = "trap"

\* C6: the CFG handed back equals the one read from scratch off the layout.
C6_CfgConsistent == cfg = compute(func)

\* An expansion that edits the CFG has just run.
C6_Witness ==
    /\ last.exit = "action"
    /\ last.opcode \in {"br_icmp", "br_table", "select", "trapz", "trapnz"}
    /\ cfg # compute(InputFunction(<<>>, FALSE, <<>>))

\* The instruction defining value v, or 0 for an EBB parameter.
def_inst(f, v) == IF f.vals[v].kind = "result" THEN f.vals[v].owner ELSE 0

\* icmp_imm on unsigned operands.
icmp_imm_true(cond, x, imm) ==
    CASE cond = "uge" -> x >= imm
      [] cond = "ugt" -> x > imm
      [] cond = "eq" -> x = imm
      [] OTHER -> FALSE

\* The indirect branch j is reached only through the jump that follows
\* `brnz oob, default` with oob = icmp_imm uge idx, len(jt), for the idx
\* and the jt the branch dispatches on; whenever that brnz is not taken the
\* index is below the table's length.
GuardedDispatch(f, g, j) ==
    LET e == inst_ebb(f, j)
        table == f.insts[j].table
        addr == def_inst(f, f.insts[j].args[1])
        entry == def_inst(f, f.insts[addr].args[2])
        idx == f.insts[entry].args[1]
        preds == {p \in g.preds : p[1] = e}
    IN /\ Cardinality(preds) = 1
       /\ f.insts[entry].opcode = "jump_table_entry"
       /\ f.insts[entry].table = table
       /\ \A p \in preds :
            LET s == f.ebb_insts[p[3]]
                n == Len(s)
            IN /\ n >= 3
               /\ s[n] = p[2]
               /\ f.insts[s[n]] = Jump(e, <<>>)
               /\ f.insts[s[n - 1]].opcode = "brnz"
               /\ f.insts[s[n - 1]].args = f.results[s[n - 2]]
               /\ f.insts[s[n - 2]].opcode = "icmp_imm"
               /\ f.insts[s[n - 2]].args = <<idx>>
               /\ \A x \in 0..(MaxTable + 2) :
                    ~icmp_imm_true(f.insts[s[n - 2]].cond, x, f.insts[s[n - 2]].imm)
                        => x < Len(f.jump_tables[table])

\* C7: every indirect_jump_table_br of the layout is guarded by the bounds
\* check, and its EBB has the guarded jump as its only predecessor.
C7_BranchTableGuard ==
    \A j \in layout_insts(func) :
        func.insts[j].opcode = "indirect_jump_table_br" => GuardedDispatch(func, cfg, j)

\* A br_table has just been lowered to a jump-table dispatch.
C7_Witness ==
    /\ last.exit = "action"
    /\ last.opcode = "br_table"
    /\ \E j \in layout_insts(func) : func.insts[j].opcode = "indirect_jump_table_br"

\* The instructions of the layout, in layout order.
RECURSIVE flat_layout(_, _)
flat_layout(f, i) ==
    IF i > Len(f.layout) THEN <<>> ELSE f.ebb_insts[f.layout[i]] \o flat_layout(f, i + 1)

\* The step on `br_table idx, default, jt` with jump tables disabled removes
\* it and leaves, in layout order, `icmp_imm eq idx, i` and `brnz` to jt[i]
\* for i = 0..n-1, and last `jump default`.
C8_BrTableCondsStep ==
    (Visiting # 0 /\ func.insts[Visiting].opcode = "br_table" /\ ~isa.jump_tables_enabled)
        => LET d == func.insts[Visiting]
               dests == func.jump_tables[d.table]
               new == SelectSeq(flat_layout(func', 1), LAMBDA x : x > num_insts(func))
               tests == SelectSeq(new, LAMBDA x : func'.insts[x].opcode \in {"icmp_imm", "brnz"})
           IN /\ Visiting \notin layout_insts(func')
              /\ Len(tests) = 2 * Len(dests)
              /\ \A k \in 0..(Len(dests) - 1) :
                    /\ func'.insts[tests[2 * k + 1]] = IcmpImm("eq", d.args[1], k)
                    /\ func'.insts[tests[2 * k + 2]]
                         = Brnz(first_result(func', tests[2 * k + 1]), dests[k + 1], <<>>)
              /\ new # <<>>
              /\ func'.insts[new[Len(new)]] = Jump(d.dest, <<>>)

\* C8: for every jump table of length n >= 0, the empty one included, every
\* step on a br_table with jump tables disabled replaces it by the n pairs
\* `icmp_imm eq idx, i; brnz jt[i]` in increasing i and a final `jump default`.
C8_BrTableConds == [][C8_BrTableCondsStep]_vars

\* The step on `trapnz v, code` (`trapz v, code`) turns it in place into
\* `brz v, new_ebb` (`brnz v, new_ebb`), puts a new `trap code` right after
\* it, and a fresh parameterless new_ebb right after that EBB holding the
\* instructions that followed, in order; nothing else changes.
C9_CondTrapStep ==
    (Visiting # 0 /\ func.insts[Visiting].opcode \in {"trapz", "trapnz"})
        => LET i == Visiting
               d == func.insts[i]
               e == inst_ebb(func, i)
               s == func.ebb_insts[e]
               k == IndexOf(s, i)
               new_ebb == num_ebbs(func) + 1
               t == num_insts(func) + 1
           IN /\ num_ebbs(func') = new_ebb
              /\ num_insts(func') = t
              /\ func'.insts[i] = IF d.opcode = "trapnz"
                                  THEN Brz(d.args[1], new_ebb, <<>>)
                                  ELSE Brnz(d.args[1], new_ebb, <<>>)
              /\ func'.insts[t] = Trap(d.code)
              /\ func'.ebb_params[new_ebb] = <<>>
              /\ func'.ebb_insts[e] = SubSeq(s, 1, k) \o <<t>>
              /\ func'.ebb_insts[new_ebb] = SubSeq(s, k + 1, Len(s))
              /\ func'.layout = InsertAt(func.layout, IndexOf(func.layout, e) + 1, new_ebb)
              /\ \A j \in 1..num_insts(func) :
                    j # i => func'.insts[j] = func.insts[j] /\ func'.results[j] = func.results[j]
              /\ \A b \in 1..num_ebbs(func) :
                    /\ func'.ebb_params[b] = func.ebb_params[b]
                    /\ b # e => func'.ebb_insts[b] = func.ebb_insts[b]
              /\ func'.vals = func.vals
              /\ func'.jump_tables = func.jump_tables

\* C9: every step on a conditional trap replaces it in place by the branch
\* of the inverse condition to a fresh parameterless new_ebb, followed by
\* `trap code` with the same code; new_ebb comes right after and holds the
\* instructions that followed the conditional trap, in order; no other
\* instruction changes.
C9_CondTrapExpansion == [][C9_CondTrapStep]_vars

\* A trapnz has just been expanded, with instructions after it.
C9_Witness ==
    /\ last.exit = "action"
    /\ last.opcode = "trapnz"
    /\ func.insts[last.inst].opcode = "brz"
    /\ Len(func.ebb_insts[func.insts[last.inst].dest]) >= 2

\* The step on `r = select c, t, f` turns it in place into
\* `brnz c, merge(t)`, puts a new `jump merge(f)` right after it, and a
\* fresh EBB merge right after that EBB, whose only parameter is r and
\* which holds the instructions that followed, in order; merge has the brnz
\* and the jump as its two predecessors.
C10_SelectStep ==
    (Visiting # 0 /\ func.insts[Visiting].opcode = "select")
        => LET i == Visiting
               d == func.insts[i]
               r == func.results[i][1]
               e == inst_ebb(func, i)
               s == func.ebb_insts[e]
               k == IndexOf(s, i)
               merge == num_ebbs(func) + 1
               j == num_insts(func) + 1
           IN /\ num_ebbs(func') = merge
              /\ num_insts(func') = j
              /\ func'.insts[i] = Brnz(d.args[1], merge, <<d.args[2]>>)
              /\ func'.insts[j] = Jump(merge, <<d.args[3]>>)
              /\ func'.results[i] = <<>>
              /\ func'.ebb_params[merge] = <<r>>
              /\ func'.vals[r] = ValueData("param", merge, 1, func.vals[r].ty)
              /\ func'.ebb_insts[e] = SubSeq(s, 1, k) \o <<j>>
              /\ func'.ebb_insts[merge] = SubSeq(s, k + 1, Len(s))
              /\ func'.layout = InsertAt(func.layout, IndexOf(func.layout, e) + 1, merge)
              /\ {p \in cfg'.preds : p[1] = merge} = {<<merge, i, e>>, <<merge, j, e>>}

\* C10: every step on `r = select c, t, f` replaces it by `brnz c, merge(t)`
\* and `jump merge(f)`, where merge is a fresh EBB right after the jump
\* whose single parameter is r and whose body is the rest of the original
\* EBB; merge has exactly the brnz and the jump as predecessors.
C10_SelectExpansion == [][C10_SelectStep]_vars

\* A select has just been expanded: its result is now the merge EBB's parameter.
C10_Witness ==
    /\ last.exit = "action"
    /\ last.opcode = "select"
    /\ func.insts[last.inst].opcode = "brnz"
    /\ Len(func.ebb_params[func.insts[last.inst].dest]) = 1

\* The width in bits of a scalar type.
lane_bits(ty) == IF ty \in {"i32", "f32"} THEN Bits32 ELSE Bits64

\* The bits an `iconst.ty imm` materializes.
iconst_bits(ty, imm) == imm % (2 ^ lane_bits(ty))

\* The instruction right before `inst` in its EBB, or 0.
inst_before(f, inst) ==
    LET s == f.ebb_insts[inst_ebb(f, inst)]
        k == IndexOf(s, inst)
    IN IF k = 1 THEN 0 ELSE s[k - 1]

\* The step on a select, an f32const, an f64const or a stack_load leaves the
\* value that was its result defined, with the type it had: as parameter of
\* an EBB of the layout for select; as result of a bitcast to that type of a
\* new iconst, right before it, of the same width and carrying the bits of
\* the constant, for fconst; as result of a load of that type from a new
\* stack_addr of the same slot and offset, right before it, for stack_load.
\* No other instruction changes, so every use sees the value it saw.
C11_ValueStep ==
    (Visiting # 0 /\ func.insts[Visiting].opcode \in {"select", "f32const", "f64const", "stack_load"})
        => LET i == Visiting
               d == func.insts[i]
               r == func.results[i][1]
               ty == func.vals[r].ty
               n == func'.insts[i]
               p == inst_before(func', i)
           IN /\ func'.vals[r].ty = ty
              /\ \A j \in 1..num_insts(func) : j # i => func'.insts[j] = func.insts[j]
              /\ d.opcode = "select" =>
                    /\ func'.vals[r].kind = "param"
                    /\ is_ebb_inserted(func', func'.vals[r].owner)
                    /\ func'.ebb_params[func'.vals[r].owner] = <<r>>
              /\ d.opcode \in {"f32const", "f64const"} =>
                    /\ func'.results[i] = <<r>>
                    /\ func'.vals[r] = ValueData("result", i, 1, ty)
                    /\ p > num_insts(func)
                    /\ n = Bitcast(ty, first_result(func', p))
                    /\ func'.insts[p].opcode = "iconst"
                    /\ value_type(func', first_result(func', p)) = func'.insts[p].ty
                    /\ lane_bits(func'.insts[p].ty) = lane_bits(ty)
                    /\ iconst_bits(func'.insts[p].ty, func'.insts[p].imm) = d.imm
              /\ d.opcode = "stack_load" =>
                    /\ func'.results[i] = <<r>>
                    /\ func'.vals[r] = ValueData("result", i, 1, ty)
                    /\ p > num_insts(func)
                    /\ n = Load(ty, "trusted", first_result(func', p), 0)
                    /\ func'.insts[p] = StackAddr(isa.pointer_type, d.code, d.imm)

\* C11: every step that expands a select, an f32const, an f64const or a
\* stack_load keeps the handle of the original result defined and of the
\* same type: merge-EBB parameter, result of the bitcast of an iconst with
\* the exact bit pattern, or result of the load.
C11_TypeAndHandlePreserved == [][C11_ValueStep]_vars

\* An f64const whose sign bit is set has just been expanded.
C11_Witness ==
    /\ last.exit = "action"
    /\ last.opcode = "f64const"
    /\ func.insts[last.inst].opcode = "bitcast"
    /\ func.insts[inst_before(func, last.inst)].imm < 0

\* A step changes the jump tables only if it is the return of
\* legalize_function, after the outer loop has run out of EBBs, and never
\* on a target that has jump tables enabled.
C12_ClearedOnlyAtReturn ==
    /\ isa.jump_tables_enabled => func'.jump_tables = func.jump_tables
    /\ func'.jump_tables # func.jump_tables
         => pc = "next_ebb" /\ walk_next_ebb(func, pos).kind # "Before" /\ pc' = "done"

\* C12: when legalize_function has returned, function.jump_tables is empty
\* if jump_tables_enabled is false; if it is true no step ever changes the
\* jump tables, so those of entry are retained unchanged; and the tables
\* change only in the returning step, after the whole walk.
C12_JumpTableClearing ==
    /\ [](pc = "done" /\ ~isa.jump_tables_enabled => func.jump_tables = <<>>)
    /\ [][C12_ClearedOnlyAtReturn]_vars

\* legalize_function has returned with the tables cleared, after lowering a
\* br_table over a non-empty table to compare-and-branch.
C12_Witness ==
    /\ pc = "done"
    /\ ~isa.jump_tables_enabled
    /\ func.jump_tables = <<>>
    /\ \E i \in layout_insts(func) :
          func.insts[i].opcode = "icmp_imm" /\ func.insts[i].cond = "eq"

\* The run was aborted by expand_br_table_conds on an empty jump table.
AbortedOnEmptyTable ==
    /\ pc = "panic"
    /\ last.opcode = "br_table"
    /\ ~isa.jump_tables_enabled
    /\ func.jump_tables[func.insts[last.inst].table] = <<>>

\* The most steps legalize_function takes on the inputs of the model: those
\* of the fixed part of the input function, at most five for an instruction
\* of the body and its expansion, at most four for an entry of the table.
StepBound == 25 + 5 * MaxBody + 4 * MaxTable

C14_VisitStep ==
    Visiting # 0
        => LET i == Visiting
               opcode == func.insts[i].opcode
               modified == IF is_call(opcode) THEN handle_call_abi(i, func, cfg).changed
                           ELSE IF is_return(opcode) THEN handle_return_abi(i, func, cfg).changed
                           ELSE FALSE
               simple == simplify_branch_arguments(func, i)
           IN /\ modified => /\ queried' = queried
                              /\ i \notin queried
                              /\ pos' = prev_pos
                              /\ prev_pos' = prev_pos
                              /\ last'.exit \in {"call_abi", "return_abi"}
                              /\ num_insts(func') > num_insts(func)
              /\ ~modified => i \in queried'
              /\ (is_branch(opcode) /\ encode(simple, i, isa).ok)
                    => /\ func'.insts = simple.insts
                       /\ encoding_of(func', i) # 0
                       /\ pos' = At(i)
                       /\ prev_pos' = At(i)
                       /\ last'.exit = "encoded"

\* C14: in every visit the call or return ABI handler runs first; if it
\* reports modified the oracle is not queried in that visit and the walk
\* restarts from prev_pos, otherwise the oracle is queried in the same
\* visit; branch-argument simplification runs before the query and never
\* by itself causes a restart or counts as a change.
C14_PerVisitProtocol == [][C14_VisitStep]_vars

\* The call handler has converted an argument, the return handler a return
\* value, and a branch has been encoded after losing an argument.
C14_Witness ==
    /\ pc = "done"
    /\ \E i \in layout_insts(func) :
          /\ func.insts[i].opcode = "brnz"
          /\ func.insts[i].dest = 4
          /\ Len(func.insts[i].args) = 1
          /\ encoding_of(func, i) # 0
    /\ Cardinality({i \in layout_insts(func) : func.insts[i].opcode = "uextend"}) = 2

\* C15: when legalize_function is entered with a CFG that is not the one of
\* the function, its first step surfaces the violation (a rejection, or at
\* least a panic) instead of going on to legalize with that CFG.
C15_InvalidCfgSurfaced ==
    [][(pc = "start" /\ cfg # compute(func)) => pc' \in {"rejected", "panic"}]_vars

(***************************************************************************)
(* The Switch builder.                                                      *)
(***************************************************************************)
\* build_cases_tree has returned and its result is at hand.
TreeBuilt == pc \in {"build_search_tree", "build_jump_tables", "emitted"}

\* The last key of a cluster.
last_key(cluster) == cluster.first + Len(cluster.ebbs) - 1

\* The tree clusters the cases: first keys go up, every cluster holds the
\* entries of consecutive keys from its first key on, neighbours are at
\* least two apart, and no entry is left out.
Clustered(tree, cases) ==
    /\ \A i \in 1..Len(tree) :
          /\ tree[i].ebbs # <<>>
          /\ \A j \in 1..Len(tree[i].ebbs) : <<tree[i].first + j - 1, tree[i].ebbs[j]>> \in cases
          /\ i < Len(tree) => tree[i + 1].first >= last_key(tree[i]) + 2
    /\ SumLen(tree, Len(tree)) = Cardinality(cases)

\* C16: for every set of distinct keys build_cases_tree returns, without a
\* panic, clusters in strictly increasing order of first key, each holding
\* the EBBs of consecutive keys from its first key on, neighbouring clusters
\* at least two keys apart, and all entries in them in ascending key order.
C16_SwitchClustering ==
    /\ [](TreeBuilt => Clustered(sw.tree, sw.cases))
    /\ [][pc = "build_cases_tree" => pc' = "build_search_tree"]_vars

C16_Witness ==
    /\ pc = "build_search_tree"
    /\ Len(sw.tree) >= 3
    /\ \E i \in 1..Len(sw.tree) : Len(sw.tree[i].ebbs) > 1
    /\ \E c \in sw.cases : c[1] = i64_MAX
    /\ \E c \in sw.cases, d \in sw.cases : c[1] < d[1] /\ c[2] > d[2]

\* The instructions build_search_tree has put in a block: all of them, but
\* for the client's block, where they follow the definition of the value.
search_insts(f, ebb) ==
    IF ebb = 1 THEN SubSeq(f.ebb_insts[ebb], sw.val + 1, Len(f.ebb_insts[ebb]))
    ELSE f.ebb_insts[ebb]

\* A block of the search tree that ends in `jump otherwise`.
IsLeaf(f, ebb) ==
    /\ search_insts(f, ebb) # <<>>
    /\ f.insts[search_insts(f, ebb)[Len(search_insts(f, ebb))]] = Jump(sw.otherwise, <<>>)

\* The EBB was created by emit and only this brnz leads to it.
FreshTarget(f, ebb, branch) ==
    /\ ebb > Cardinality(sw.cases) + 1
    /\ ~is_ebb_inserted(f, ebb)
    /\ \A i \in 1..num_insts(f) : (f.insts[i].dest = ebb) => i = branch

\* The test at s[k], s[k + 1] is the one of a cluster: `icmp_imm eq` on the
\* key and `brnz` to the entry's EBB for a singleton, `icmp_imm sge` on the
\* first key and `brnz` to a fresh EBB remembered for the jump table for a run.
ClusterTest(f, s, k) ==
    /\ f.insts[s[k]].opcode = "icmp_imm"
    /\ f.insts[s[k]].args = <<sw.val>>
    /\ f.insts[s[k + 1]] = Brnz(first_result(f, s[k]), f.insts[s[k + 1]].dest, <<>>)
    /\ \E i \in 1..Len(sw.tree) :
          /\ sw.tree[i].first = f.insts[s[k]].imm
          /\ IF Len(sw.tree[i].ebbs) = 1
             THEN /\ f.insts[s[k]].cond = "eq"
                  /\ f.insts[s[k + 1]].dest = sw.tree[i].ebbs[1]
             ELSE /\ f.insts[s[k]].cond = "sge"
                  /\ FreshTarget(f, f.insts[s[k + 1]].dest, s[k + 1])
                  /\ [first |-> sw.tree[i].first, jt_ebb |-> f.insts[s[k + 1]].dest,
                      ebbs |-> sw.tree[i].ebbs] \in Range(sw.jts)

\* The block is a cascade of n tests on keys going down and `jump otherwise`.
LeafCascade(f, s, n) ==
    /\ Len(s) = 2 * n + 1
    /\ f.insts[s[Len(s)]] = Jump(sw.otherwise, <<>>)
    /\ \A p \in 1..n :
          /\ ClusterTest(f, s, 2 * p - 1)
          /\ p < n => f.insts[s[2 * p + 1]].imm < f.insts[s[2 * p - 1]].imm

\* C17: a list of at most 3 clusters becomes, in the current block, one
\* test per cluster in descending key order (eq and brnz to the EBB for a
\* singleton, sge and brnz to a fresh jump-table EBB for a run) and then
\* `jump otherwise`; the leaf of every sublist has this shape, with at most
\* 3 tests.
C17_LeafCascade ==
    pc = "build_jump_tables" =>
        /\ Len(sw.tree) <= 3 =>
              /\ func.layout = <<1>>
              /\ LeafCascade(func, search_insts(func, 1), Len(sw.tree))
        /\ \A ebb \in Range(func.layout) :
              IsLeaf(func, ebb) =>
                  \E n \in 0..3 : LeafCascade(func, search_insts(func, ebb), n)

C17_Witness ==
    /\ pc = "build_jump_tables"
    /\ Len(sw.tree) = 3
    /\ \E i \in 1..3, j \in 1..3 : Len(sw.tree[i].ebbs) = 1 /\ Len(sw.tree[j].ebbs) > 1
    /\ Len(search_insts(func, 1)) = 7

\* The EBB the switch has for a key.
ebb_of(cases, key) == (CHOOSE c \in cases : c[1] = key)[2]

\* The keys a leaf tests, last test first.
leaf_keys(f, s) == [p \in 1..((Len(s) - 1) \div 2) |-> f.insts[s[Len(s) - 2 * p]].imm]

\* The block is the head of a split: a test, `brnz` and `jump`.
IsSplit(f, ebb) ==
    /\ ~IsLeaf(f, ebb)
    /\ Len(search_insts(f, ebb)) = 3
    /\ f.insts[search_insts(f, ebb)[3]].opcode = "jump"

left_of(f, ebb) == f.insts[search_insts(f, ebb)[3]].dest

right_of(f, ebb) == f.insts[search_insts(f, ebb)[2]].dest

\* The keys tested in the search tree under a block, left to right.
RECURSIVE tree_keys(_, _)
tree_keys(f, ebb) ==
    IF IsLeaf(f, ebb) THEN leaf_keys(f, search_insts(f, ebb))
    ELSE IF IsSplit(f, ebb)
    THEN tree_keys(f, left_of(f, ebb)) \o tree_keys(f, right_of(f, ebb))
    ELSE <<>>

\* The head of a split tests `sge` against the first key of its right half,
\* goes right on it and left otherwise, both to EBBs emit created, and the
\* left half has len/2 of the clusters under it.
SplitShape(f, ebb) ==
    /\ f.insts[search_insts(f, ebb)[1]].opcode = "icmp_imm"
    /\ f.insts[search_insts(f, ebb)[1]].cond = "sge"
    /\ f.insts[search_insts(f, ebb)[1]].args = <<sw.val>>
    /\ f.insts[search_insts(f, ebb)[2]]
          = Brnz(first_result(f, search_insts(f, ebb)[1]), right_of(f, ebb), <<>>)
    /\ f.insts[search_insts(f, ebb)[3]] = Jump(left_of(f, ebb), <<>>)
    /\ {left_of(f, ebb), right_of(f, ebb)} \subseteq Range(f.layout)
    /\ left_of(f, ebb) > Cardinality(sw.cases) + 1
    /\ right_of(f, ebb) > left_of(f, ebb)
    /\ Len(tree_keys(f, ebb)) > 3
    /\ Len(tree_keys(f, left_of(f, ebb))) = Len(tree_keys(f, ebb)) \div 2
    /\ tree_keys(f, right_of(f, ebb)) # <<>>
    /\ f.insts[search_insts(f, ebb)[1]].imm = tree_keys(f, right_of(f, ebb))[1]

\* The key set of tests::switch_many has been emitted.
SwitchManyEmitted == pc = "emitted" /\ {c[1] : c \in sw.cases} = SwitchMany

\* C18: a list of more than 3 clusters is split at len/2: the block tests
\* `icmp_imm sge val, first key of the right half`, branches to a fresh right
\* EBB and jumps to a fresh left EBB, each half is built in its EBB in the
\* same way, and so every cluster is tested once, in a leaf of at most 3
\* clusters. The keys {0,1,5,7,10,11,12} get the pivot 7 at the root and two
\* jump tables, the first for 10..12 and the second for 0..1.
C18_BinarySplit ==
    /\ pc = "build_jump_tables" =>
          /\ Len(sw.tree) > 3 <=> IsSplit(func, 1)
          /\ \A ebb \in Range(func.layout) :
                /\ IsLeaf(func, ebb) \/ IsSplit(func, ebb)
                /\ IsLeaf(func, ebb) => Len(tree_keys(func, ebb)) <= 3
                /\ IsSplit(func, ebb) => SplitShape(func, ebb)
          /\ tree_keys(func, 1) = [i \in 1..Len(sw.tree) |-> sw.tree[i].first]
    /\ SwitchManyEmitted =>
          /\ func.insts[search_insts(func, 1)[1]].imm = 7
          /\ func.jump_tables
                = << <<ebb_of(sw.cases, 10), ebb_of(sw.cases, 11), ebb_of(sw.cases, 12)>>,
                     <<ebb_of(sw.cases, 0), ebb_of(sw.cases, 1)>> >>

C18_Witness ==
    /\ SwitchManyEmitted
    /\ IsSplit(func, 1)
    /\ Len(func.jump_tables) = 2
    /\ ebb_of(sw.cases, 0) > ebb_of(sw.cases, 12)

\* emit is over: it has returned, or it has panicked in build_jump_tables
\* (set_entry panics before any jump-table EBB is asked for).
EmitEnded == pc = "emitted" \/ (pc = "panic" /\ sw.jts # <<>>)

\* The instructions of an EBB.
ebb_data(f, ebb) == [i \in 1..Len(f.ebb_insts[ebb]) |-> f.insts[f.ebb_insts[ebb][i]]]

\* Table jt lists the EBBs of the cluster's keys in ascending order, and the
\* block the cluster's `sge` test branches to is in the layout and holds
\* `discr = iadd_imm val, -first_key` (modulo 2^Bits64), `br_table discr, jt`
\* and `jump otherwise`.
Dispatches(f, cluster, jt) ==
    /\ f.jump_tables[jt]
          = [j \in 1..Len(cluster.ebbs) |-> ebb_of(sw.cases, cluster.first + j - 1)]
    /\ \E i \in 1..num_insts(f) :
          /\ f.insts[i].opcode = "icmp_imm"
          /\ f.insts[i].cond = "sge"
          /\ f.insts[i].imm = cluster.first
          /\ f.insts[i + 1].opcode = "brnz"
          /\ f.insts[i + 1].dest \in Range(f.layout)
          /\ Len(f.ebb_insts[f.insts[i + 1].dest]) = 3
          /\ \E d \in {f.ebb_insts[f.insts[i + 1].dest][1]} :
                /\ f.insts[d].opcode = "iadd_imm"
                /\ f.insts[d].args = <<sw.val>>
                /\ wrapping(f.insts[d].imm + cluster.first) = 0
                /\ f.insts[d + 1] = BrTable(first_result(f, d), NoEbb, jt)
                /\ f.insts[d + 2] = Jump(sw.otherwise, <<>>)
                /\ f.ebb_insts[f.insts[i + 1].dest] = <<d, d + 1, d + 2>>

\* The clusters of more than one key.
Runs(tree) == {i \in 1..Len(tree) : Len(tree[i].ebbs) > 1}

\* C19: when emit is over there is exactly one jump table per cluster of
\* more than one key and none for a singleton; the table lists the cluster's
\* EBBs in ascending key order, and the cluster's dispatch EBB computes
\* discr = val - first_key, then `br_table discr, jt`, then `jump otherwise`.
C19_JumpTables ==
    EmitEnded =>
        /\ Len(func.jump_tables) = Cardinality(Runs(sw.tree))
        /\ \A i \in Runs(sw.tree) :
              \E jt \in 1..Len(func.jump_tables) : Dispatches(func, sw.tree[i], jt)
        /\ \A jt \in 1..Len(func.jump_tables) :
              Cardinality({i \in Runs(sw.tree) : Dispatches(func, sw.tree[i], jt)}) = 1

\* The same where no run starts at i64::MIN or the build wraps on overflow.
C19_JumpTablesNoOverflow ==
    (sw.checked => \A i \in Runs(sw.tree) : sw.tree[i].first # i64_MIN) => C19_JumpTables

\* The builder emit leaves when called in the client's initial state with the
\* map's entries collected by ascending key.
ReferenceRun ==
    emit(Builder(SetupFunction(func.vals[1].ty, Cardinality(sw.cases)), 1), 1, sw.otherwise,
         by_key(sw.cases), sw.checked)

\* C20: the IR emit produces (instructions, EBB, value and jump-table
\* numbers) and its outcome depend only on the entries, the default and the
\* builder's state at the call: a run is identical to the run that collects
\* the same entries by ascending key, whatever the order of the set_entry
\* calls and the order in which the map iterates.
C20_Determinism ==
    EmitEnded =>
        /\ func = ReferenceRun.func
        /\ sw.block = ReferenceRun.block
        /\ (pc = "panic") = ReferenceRun.panic

C20_Witness ==
    /\ pc = "emitted"
    /\ Len(sw.collected) >= 4
    /\ sw.collected = Reverse(by_key(sw.cases))
    /\ Len(sw.tree) > 3
    /\ func.jump_tables # <<>>

\* The immediates of the comparisons emit has made.
compared_keys(f) == {f.insts[i].imm : i \in {j \in 1..num_insts(f) : f.insts[j].opcode = "icmp_imm"}}

\* The first keys of the clusters.
first_keys(tree) == {tree[i].first : i \in 1..Len(tree)}

\* No step of emit overflows: neither the clustering nor the dispatch
\* offsets make it panic.
InEmit == pc \in {"build_cases_tree", "build_search_tree", "build_jump_tables"}

EmitCompletes == [][InEmit => (pc' # "panic")]_vars

\* C21: emit completes for every set of distinct keys, also with i64::MIN,
\* i64::MAX and runs that start at i64::MIN among them: `last_index + 1` and
\* the negation of the first key do not overflow, and the immediates of the
\* comparisons are exactly the keys (the clusters' first keys, and among
\* them the right halves' first keys of the splits).
C21_ExtremeKeys ==
    /\ EmitCompletes
    /\ [](pc \in {"build_jump_tables", "emitted"} => compared_keys(func) = first_keys(sw.tree))

\* The same without the dispatch offsets: the clustering never overflows and
\* the comparisons are on the keys, in every build.
C21_ClusteringAndComparisons ==
    /\ [][pc = "build_cases_tree" => (pc' # "panic")]_vars
    /\ [](pc \in {"build_jump_tables", "emitted"} \/ (pc = "panic" /\ sw.jts # <<>>)
             => compared_keys(func) = first_keys(sw.tree))

\* The instructions of the function with this opcode.
insts_of(f, opcode) == {i \in 1..num_insts(f) : f.insts[i].opcode = opcode}

\* emit has got past its head.
EmitStarted == pc \in {"build_cases_tree", "build_search_tree", "build_jump_tables", "emitted"}

\* Every comparison and every dispatch offset emit has made is on value v.
SwitchesOn(f, v) ==
    \A i \in insts_of(f, "icmp_imm") \cup insts_of(f, "iadd_imm") : f.insts[i].args = <<v>>

\* C22: a value of a type narrower than 32 bits (i8, i16) is zero-extended
\* to i32 by a single uextend, the first thing emit does, and every
\* comparison and dispatch offset uses the extended value; for a value of 32
\* bits or more there is no uextend and the value itself is used.
C22_NarrowValues ==
    EmitStarted =>
        IF func.vals[1].ty \in {"i8", "i16"}
        THEN /\ insts_of(func, "uextend") = {2}
             /\ func.insts[2] = Uextend("i32", 1)
             /\ value_type(func, first_result(func, 2)) = "i32"
             /\ sw.val = first_result(func, 2)
             /\ SwitchesOn(func, first_result(func, 2))
        ELSE /\ insts_of(func, "uextend") = {}
             /\ sw.val = 1
             /\ SwitchesOn(func, 1)

C22_Witness ==
    /\ pc = "emitted"
    /\ func.vals[1].ty = "i16"
    /\ insts_of(func, "uextend") = {2}
    /\ insts_of(func, "iadd_imm") # {}
    /\ Cardinality(insts_of(func, "icmp_imm")) >= 3

\* The switch has an entry for the key.
has_entry(cases, index) == \E c \in cases : c[1] = index

\* A call of set_entry: it panics when the index has an entry, and otherwise
\* adds its entry and leaves the others alone.
C23_SetEntryStep ==
    (pc = "set_entry" /\ sw.todo # <<>>) =>
        IF has_entry(sw.cases, Head(sw.todo)[1])
        THEN pc' = "panic"
        ELSE /\ pc' = "set_entry"
             /\ sw'.cases = sw.cases \cup {Head(sw.todo)}

\* C23: set_entry on an index that has an entry already fails with the
\* assertion; after successful calls only, every key has exactly one EBB,
\* the one of the one successful call for that key.
C23_EntryUniqueness ==
    /\ [][C23_SetEntryStep]_vars
    /\ [](pc # "panic" => \A c \in sw.cases, d \in sw.cases : c[1] = d[1] => c = d)

C23_Witness ==
    /\ pc = "panic"
    /\ sw.collected = <<>>
    /\ sw.todo = <<>>
    /\ Cardinality(sw.cases) >= 3
    /\ \E c \in sw.cases : c[2] = 1

\* The layout with new_ebb right after ebb.
with_ebb_after(layout, ebb, new_ebb) == InsertAt(layout, IndexOf(layout, ebb) + 1, new_ebb)

\* The step on `br_table idx, default, jt` with jump tables enabled: in the
\* br_table's EBB the bounds check, the branch to default and the jump to the
\* dispatch EBB take its place, and the dispatch EBB, new and next in the
\* layout, holds the base, the entry, their sum and the indirect branch.
C24_BrTableJtStep ==
    (Visiting # 0 /\ func.insts[Visiting].opcode = "br_table" /\ isa.jump_tables_enabled)
        => LET d == func.insts[Visiting]
               e == inst_ebb(func, Visiting)
               n == num_insts(func)
               v == num_values(func)
               dispatch_ebb == num_ebbs(func) + 1
               ptr == isa.pointer_type
           IN /\ Visiting \notin layout_insts(func')
              /\ func'.ebb_insts[e]
                    = SubSeq(func.ebb_insts[e], 1, Len(func.ebb_insts[e]) - 1)
                          \o <<n + 1, n + 2, n + 3>>
              /\ func.ebb_insts[e][Len(func.ebb_insts[e])] = Visiting
              /\ func'.insts[n + 1] = IcmpImm("uge", d.args[1], Len(func.jump_tables[d.table]))
              /\ func'.results[n + 1] = <<v + 1>>
              /\ func'.insts[n + 2] = Brnz(v + 1, d.dest, <<>>)
              /\ func'.insts[n + 3] = Jump(dispatch_ebb, <<>>)
              /\ num_ebbs(func') = dispatch_ebb
              /\ func'.layout = with_ebb_after(func.layout, e, dispatch_ebb)
              /\ func'.ebb_insts[dispatch_ebb] = <<n + 4, n + 5, n + 6, n + 7>>
              /\ func'.insts[n + 4] = JumpTableBase(ptr, d.table)
              /\ func'.results[n + 4] = <<v + 2>>
              /\ func'.insts[n + 5] = JumpTableEntry(ptr, d.args[1], v + 2, 4, d.table)
              /\ func'.results[n + 5] = <<v + 3>>
              /\ func'.insts[n + 6] = Iadd(ptr, v + 2, v + 3)
              /\ func'.results[n + 6] = <<v + 4>>
              /\ func'.insts[n + 7] = IndirectJumpTableBr(v + 4, d.table)
              /\ \A x \in Range(func.layout) \ {e} : func'.ebb_insts[x] = func.ebb_insts[x]

RECURSIVE done_prefix(_, _)
done_prefix(tests, i) ==
    IF i > Len(tests) \/ ~is_done(tests[i].state) THEN i - 1 ELSE done_prefix(tests, i + 1)

\* C25: jobs are reported strictly in queue order and each at most once
\* (the jobs reported so far are 0, 1, ... reported_tests - 1 in this order),
\* a job is reported only when it and all jobs before it are Done, and
\* reported_tests is the length of the longest prefix of Done tests, in
\* whatever order the Done replies arrive.
C25_InOrderReporting ==
    /\ tr.reported = [i \in 1..tr.reported_tests |-> i - 1]
    /\ tr.reported_tests <= Len(tr.tests)
    /\ tr.reported_tests = done_prefix(tr.tests, 1)

\* A job has finished before an earlier one and waits for its report.
C25_Witness ==
    /\ tr.call = "run"
    /\ Len(tr.tests) >= 3
    /\ tr.reported_tests = 1
    /\ tr.tests[2].state = "Running"
    /\ is_done(tr.tests[3].state)
    /\ tr.panic = ""

\* The jobs of the queue that finished with an error.
failed_jobs(r) == {j \in 1..Len(r.tests) : r.tests[j].state = "DoneErr"}

\* C26: in run(), synchronous or concurrent, errors is the number of jobs that
\* finished with an error plus the number of reported path errors (a failing
\* job counts once), and run() returns Ok exactly when errors is 0 at the end.
C26_RunResult ==
    tr.call = "run" =>
        /\ tr.errors = Cardinality(failed_jobs(tr)) + tr.path_errors
        /\ pc = "returned" => (tr.result = "Ok" <=> tr.errors = 0)
        /\ pc = "returned" => tr.result \in {"Ok", "Err"}

\* A concurrent run has returned with a failed job and a path error.
C26_Witness ==
    /\ tr.call = "run"
    /\ pc = "returned"
    /\ tr.shut
    /\ Cardinality(failed_jobs(tr)) = 1
    /\ tr.path_errors = 1
    /\ tr.errors = 2
    /\ tr.result = "Err"

\* A synchronous run without any error has returned Ok.
C26_WitnessOk ==
    /\ tr.call = "run"
    /\ pc = "returned"
    /\ ~tr.shut
    /\ Len(tr.tests) >= 2
    /\ tr.errors = 0
    /\ tr.result = "Ok"

\* ticks_since_progress counts the Tick replies handled since the last Done
\* reply (Starting replies do not count and do not reset it), and run() panics
\* exactly when TIMEOUT_PANIC of them have been handled in a row.
StallCount ==
    /\ tr.ticks_since_progress = tr.since_done
    /\ tr.since_done <= TIMEOUT_PANIC
    /\ tr.panic = "worker threads stalled" <=> tr.since_done = TIMEOUT_PANIC
    /\ tr.call = "run" => (pc = "panic" <=> tr.since_done = TIMEOUT_PANIC)

\* The STALLED report is printed by the step at which the count reaches
\* TIMEOUT_SLOW, and by no other.
StallReport ==
    /\ tr'.stalled \in {tr.stalled, tr.stalled + 1}
    /\ tr'.stalled # tr.stalled <=>
           (tr.since_done = TIMEOUT_SLOW - 1 /\ tr'.since_done = TIMEOUT_SLOW)

\* C27: the runner panics exactly when TIMEOUT_PANIC (10) Tick replies in a
\* row have been handled with no Done reply in between; a Done reply resets
\* ticks_since_progress to 0, a Starting reply does not; the STALLED report is
\* printed exactly when the count reaches TIMEOUT_SLOW (3).
C27_StallTimeout == []StallCount /\ [][StallReport]_vars

\* The runner has panicked after a second stall, with a job started but not
\* done: a Done reply had reset the count after the first STALLED report.
C27_Witness ==
    /\ pc = "panic"
    /\ tr.panic = "worker threads stalled"
    /\ tr.ticks_since_progress = TIMEOUT_PANIC
    /\ tr.stalled = 2
    /\ \E j \in 1..Len(tr.tests) : tr.tests[j].state = "Running"

\* The tests of the queue that runone::run fails on.
failing_tests(r) == {j \in 1..Len(r.tests) : r.tests[j].path \in r.fails}

\* C28: run_passes scans the pushed directories and runs the passes on every
\* test that was pushed or discovered, each test exactly once, and its result
\* is Ok exactly when no test failed and no path error occurred.
C28_RunPassesCoverage ==
    tr.call = "run_passes" =>
        /\ pc # "panic"
        /\ pc = "returned" =>
              /\ tr.dir_stack = <<>>
              /\ \A j \in 1..Len(tr.tests) : tr.ran[j] = 1
              /\ tr.result = "Ok" <=> (failing_tests(tr) = {} /\ tr.path_errors = 0)

\* What run_passes does: every call of schedule_pass_job runs tests[0], once
\* for each directory scanned and once more, and no other test is run; the
\* result is Ok exactly when errors is 0.
C28_RunsFirstTestOnly ==
    (tr.call = "run_passes" /\ pc = "returned") =>
        /\ tr.dir_stack = <<>>
        /\ tr.ran[1] >= 1
        /\ \A j \in 2..Len(tr.tests) : tr.ran[j] = 0
        /\ tr.result = "Ok" <=> tr.errors = 0
        /\ tr.errors = tr.path_errors + (IF 1 \in failing_tests(tr) THEN tr.ran[1] ELSE 0)

\* run_passes has returned Ok with a failing test in the queue that it never ran.
C28_Witness ==
    /\ tr.call = "run_passes"
    /\ pc = "returned"
    /\ tr.result = "Ok"
    /\ \E j \in failing_tests(tr) : tr.ran[j] = 0

(***************************************************************************)
(* The bugpoint reducer.                                                    *)
(***************************************************************************)
\* Every function adopted during reduction still triggers the panic.
AdoptedPanics == red.adopted = 1 => check_for_crash(func, red.crash) = "Panic"

\* An iteration that made a candidate: check_for_crash judged that candidate,
\* the working function becomes the candidate only on Panic, and on Succeed
\* or a verifier error it is left as it was.
AcceptStep ==
    /\ red'.step \in {"Shrinked", "Replaced"} =>
           red'.res = check_for_crash(red'.cand, red.crash)
    /\ func' # func =>
           (red'.step \in {"Shrinked", "Replaced"} /\ red'.res = "Panic" /\ func' = red'.cand)
    /\ red'.res \in {"Succeed", "Verifier"} => func' = func

\* C29: in reduce the working function is replaced by a candidate only when
\* check_for_crash reports Panic for that candidate; a candidate that compiles
\* or that the verifier rejects is discarded and the working function is left
\* unchanged by that step; hence every adopted function still panics.
C29_ReducerAcceptance == []AdoptedPanics /\ [][AcceptStep]_vars

\* A shrinking candidate has just been adopted, after which the working
\* function is smaller than the original and still panics.
C29_Witness ==
    /\ red.step = "Shrinked"
    /\ red.res = "Panic"
    /\ func = red.cand
    /\ inst_count(func) < red.orig[2]
    /\ check_for_crash(func, red.crash) = "Panic"

\* A candidate has just been discarded.
C29_WitnessDiscard ==
    /\ red.step \in {"Shrinked", "Replaced"}
    /\ red.res \in {"Succeed", "Verifier"}
    /\ func # red.cand

\* Whether the pass that has come to n goes on to adopt a shrinking step.
RECURSIVE pass_shrinks(_)
pass_shrinks(n) ==
    IF n.red.was_reduced THEN TRUE
    ELSE IF n.red.step \in {"Finished", "Limit", "Panic"} THEN FALSE
    ELSE pass_shrinks(iteration(n.func, n.red))

\* Whether one more pass of reduce over f would adopt a shrinking step.
later_pass_shrinks(f, r) == pass_shrinks(iteration(f, new_pass(r, r.pass_idx + 1)))

\* C30: if a complete pass of reduce adopts no shrinking step, then no later
\* pass over the resulting function would adopt one either, also when the
\* pass adopted replacements: stopping after such a pass loses no reduction.
C30_ReducerFixedPoint ==
    (pc = "reduced" /\ ~red.was_reduced) => ~later_pass_shrinks(func, red)

\* reduce has stopped after a pass that adopted replacements only, and the
\* next pass would have removed an instruction.
C30_Witness ==
    /\ pc = "reduced"
    /\ ~red.was_reduced
    /\ red.adopted = 1
    /\ red.shrunk = 0
    /\ later_pass_shrinks(func, red)

\* What holds: a pass that adopted nothing at all leaves nothing for a later
\* pass to shrink.
C30_FixedPointWithoutReplacements ==
    (pc = "reduced" /\ red.adopted = 0) => ~later_pass_shrinks(func, red)

\* The EBBs of f's layout that have instructions in g.
RECURSIVE ebbs_with_insts(_, _, _)
ebbs_with_insts(f, g, i) ==
    IF i > Len(f.layout) THEN <<>>
    ELSE (IF g.ebb_insts[f.layout[i]] = <<>> THEN <<>> ELSE <<f.layout[i]>>)
         \o ebbs_with_insts(f, g, i + 1)

no_empty_ebb(f) == \A e \in Range(f.layout) : f.ebb_insts[e] # <<>>

\* A step of the RemoveInst phase that made a candidate: one instruction of
\* the working function is gone, the candidate's layout has no empty EBB, and
\* it is the working function's layout without the EBB the removal emptied.
RemoveInstStep ==
    (pc = "reduce" /\ red.phase.kind = "RemoveInst" /\ red'.step = "Shrinked") =>
        /\ no_empty_ebb(red'.cand)
        /\ inst_count(red'.cand) = inst_count(func) - 1
        /\ red'.cand.layout = ebbs_with_insts(func, red'.cand, 1)

\* C31: after every RemoveInst step of the reducer no EBB in the candidate
\* function's layout is empty (the function given to reduce having none); when
\* removing an instruction empties its EBB, the same step removes that EBB
\* from the layout.
C31_NoEmptyEbb == []no_empty_ebb(func) /\ [][RemoveInstStep]_vars

\* A RemoveInst step has removed the only instruction of an EBB, and the EBB
\* with it.
C31_Witness ==
    /\ red.phase.kind = "RemoveInst"
    /\ red.step = "Shrinked"
    /\ ebb_count(red.cand) = red.orig[1] - 1
    /\ inst_count(red.cand) = red.orig[2] - 1
    /\ no_empty_ebb(red.cand)

(***************************************************************************)
(* The trace switch.                                                        *)
(***************************************************************************)
\* In a debug build every call of enabled(), on every thread, returns true
\* iff CRETONNE_DBG is set to something other than "0".
SameAnswer ==
    dbg.debug_assertions => dbg.returns \subseteq {dbg.env \notin {"unset", "0"}}

\* STATE never returns to 0 once it has been set to 1 or -1.
NeverReset == \A i \in 2..Len(dbg.mo) : dbg.mo[i] \in {1, -1}

\* The environment is consulted only by a call whose load of STATE gave 0.
ConsultedAfterZero ==
    \A t \in 1..Len(dbg.threads) :
        dbg.threads[t].pc \in {"initialize", "store"} => dbg.threads[t].loaded = 0

ConsultStep ==
    dbg'.consulted # dbg.consulted =>
        \E t \in 1..Len(dbg.threads) :
            /\ dbg.threads[t].pc = "initialize"
            /\ dbg.threads[t].loaded = 0
            /\ dbg'.consulted = dbg.consulted \cup {[thread |-> t, state |-> STATE_now]}

\* The environment is consulted only while STATE is 0.
ConsultedWhileZero == \A c \in dbg.consulted : c.state = 0

\* C32: in a debug build enabled() returns true iff CRETONNE_DBG is set to
\* something other than "0"; the environment is consulted only while STATE is
\* 0; STATE never returns to 0 once set to 1 or -1; with an unchanged
\* environment every call on every thread returns the same answer, also when
\* threads race through initialize().
C32_TraceSwitch == SameAnswer /\ NeverReset /\ ConsultedWhileZero

\* C32, amended: as above, but the environment is consulted by every call
\* whose load of STATE gave 0, also after another thread has set STATE.
C32_TraceSwitchAmended ==
    [](SameAnswer /\ NeverReset /\ ConsultedAfterZero) /\ [][ConsultStep]_vars

\* Two threads have raced through initialize() in a debug build with tracing
\* on: the second read the environment when STATE was already 1, and every
\* call has returned true.
C32_Witness ==
    /\ dbg.debug_assertions
    /\ dbg.env = ""
    /\ Len(dbg.mo) = 3
    /\ \E c \in dbg.consulted : c.state = 1
    /\ dbg.calls = MaxCalls
    /\ dbg.returns = {TRUE}
    /\ \A t \in 1..Len(dbg.threads) : dbg.threads[t].pc = "idle"

(***************************************************************************)
(* Simple GVN.                                                              *)
(***************************************************************************)
\* What GVN never considers: calls, branches, terminators, returns, what can
\* trap or has other side effects, loads and stores.
unsafe_for_gvn(op) ==
    is_call(op) \/ is_branch(op) \/ is_terminator(op) \/ is_return(op) \/ can_trap(op)
    \/ other_side_effects(op) \/ can_load(op) \/ can_store(op)

visited_insts(g) == {g.visited[k].inst : k \in 1..Len(g.visited)}

\* Such instructions stay in the layout and are never recorded; what is
\* recorded in visible_values is in the layout.
NeverUnsafe ==
    /\ \A inst \in 1..num_insts(func) :
          unsafe_for_gvn(func.insts[inst].opcode) =>
              inst \in layout_insts(func) /\ inst \notin gvn.recorded
    /\ \A e \in gvn.visible_values :
          e.inst \in layout_insts(func) /\ ~unsafe_for_gvn(func.insts[e.inst].opcode)

\* The instruction I leaves the layout for the existing instruction E.
RemovedFor(I, E) ==
    /\ layout_insts(func') = layout_insts(func) \ {I}
    /\ E # I
    /\ E \in visited_insts(gvn)
    /\ E \in layout_insts(func')
    /\ [key |-> func'.insts[I], inst |-> E] \in gvn.visible_values
    /\ func'.insts[I] = resolve_aliases_in_arguments(func, I).insts[I]
    /\ func'.insts[E] = func'.insts[I]
    /\ dominates(func, E, I)
    /\ func'.results[I] = <<>>
    /\ \A k \in 1..Len(func.results[I]) :
          /\ func'.vals[func.results[I][k]].kind = "alias"
          /\ func'.vals[func.results[I][k]].owner = func.results[E][k]
    /\ ~unsafe_for_gvn(func.insts[I].opcode)

RemovalStep ==
    layout_insts(func') # layout_insts(func) =>
        \E I \in layout_insts(func) : RemovedFor(I, gvn'.existing)

\* C33: do_simple_gvn removes an instruction I only if a previously visited,
\* still laid-out instruction E with identical instruction data (I's
\* arguments with their aliases resolved) is recorded and E dominates I, and
\* then I's results become aliases of E's results; calls, branches,
\* terminators, returns, instructions that can trap, have other side effects,
\* can load or can store are never removed and never recorded.
C33_GvnRemoval == []NeverUnsafe /\ [][RemovalStep]_vars

\* GVN has ended after removing two instructions, one of them a popcnt whose
\* argument was resolved to the result of the iadd_imm that replaced its own.
C33_Witness ==
    /\ pc = "gvn_done"
    /\ Cardinality(gvn.removed) = 2
    /\ gvn.existing \in layout_insts(func)
    /\ \E I \in gvn.removed :
          /\ func.insts[I].opcode = "popcnt"
          /\ func.insts[I] = func.insts[gvn.existing]
          /\ func.insts[I].args[1] # 1
          /\ I - 1 \in gvn.removed

\* The instructions visited after the k-th that have the key and are still
\* in the layout.
later_with_key(k, key) ==
    {gvn.visited[n].inst : n \in {m \in (k + 1)..Len(gvn.visited) :
                                      /\ gvn.visited[m].key = key
                                      /\ gvn.visited[m].inst \in layout_insts(func)}}

\* C36: when the recorded instruction E for a key does not dominate the
\* current instruction I with the same key, E does not dominate any
\* instruction visited later in the reverse post-order walk either, so
\* overwriting the entry with I never discards a candidate that could still
\* have replaced a later instruction.
C36_CandidateReplacement ==
    \A d \in gvn.discarded : \A J \in later_with_key(d.at, d.key) : ~dominates(func, d.inst, J)

\* GVN has ended with an instruction in the layout that a discarded
\* candidate dominates and no recorded candidate replaced.
C36_Witness ==
    /\ pc = "gvn_done"
    /\ gvn.removed = {}
    /\ \E d \in gvn.discarded : \E J \in later_with_key(d.at, d.key) :
          /\ dominates(func, d.inst, J)
          /\ func.insts[J] = func.insts[d.inst]

\* What holds: an overwritten candidate does not dominate the instruction
\* that took its place.
C36_OverwrittenDoesNotDominate ==
    \A d \in gvn.discarded : ~dominates(func, d.inst, gvn.visited[d.at].inst)

(***************************************************************************)
(* Executing the code emit has written. The instructions' semantics are    *)
(* those of the instruction set: integers of the width of their type,      *)
(* immediates taken to the type of the instruction, icmp_imm's sge signed, *)
(* br_table falling through when its unsigned index is out of range.       *)
(***************************************************************************)
Bits8 == 2

Bits16 == 3

\* The width of an integer type.
type_bits(ty) ==
    CASE ty = "i8" -> Bits8 [] ty = "i16" -> Bits16 [] ty = "i32" -> Bits32 [] OTHER -> Bits64

\* The bit pattern of x in this many bits, as an unsigned number.
as_unsigned(bits, x) == x % (2 ^ bits)

\* The same pattern as a two's complement number.
as_signed(bits, x) == ((x + 2 ^ (bits - 1)) % (2 ^ bits)) - 2 ^ (bits - 1)

\* What an instruction of the search computes from the value of its argument.
eval_inst(f, data, x) ==
    CASE data.opcode = "uextend" ->
            as_unsigned(type_bits(value_type(f, data.args[1])), x)
      [] data.opcode = "iadd_imm" -> as_signed(type_bits(data.ty), x + data.imm)
      [] data.opcode = "icmp_imm" /\ data.cond = "eq" ->
            IF x = as_signed(type_bits(value_type(f, data.args[1])), data.imm) THEN 1 ELSE 0
      [] data.opcode = "icmp_imm" /\ data.cond = "sge" ->
            IF x >= as_signed(type_bits(value_type(f, data.args[1])), data.imm) THEN 1 ELSE 0
      [] OTHER -> 0

\* Where br_table goes on x: the entry of the unsigned index, or nowhere
\* when the index is out of range.
br_table_target(f, data, x) ==
    IF as_unsigned(type_bits(value_type(f, data.args[1])), x) < Len(f.jump_tables[data.table])
    THEN f.jump_tables[data.table][as_unsigned(type_bits(value_type(f, data.args[1])), x) + 1]
    ELSE NoEbb

\* Where the instruction sends control on the values env: NoEbb when the
\* execution goes on with the next instruction.
branch_target(f, data, env) ==
    CASE data.opcode = "jump" -> data.dest
      [] data.opcode = "brnz" -> IF env[data.args[1]] # 0 THEN data.dest ELSE NoEbb
      [] data.opcode = "br_table" -> br_table_target(f, data, env[data.args[1]])
      [] OTHER -> NoEbb

\* The values after the instruction.
env_after(f, inst, env) ==
    IF f.results[inst] = <<>> THEN env
    ELSE (first_result(f, inst) :> eval_inst(f, f.insts[inst], env[f.insts[inst].args[1]])) @@ env

\* The execution from the i-th instruction of the EBB on: the first of the
\* EBBs `targets` control is transferred to.
RECURSIVE execute(_, _, _, _, _)
execute(f, ebb, i, env, targets) ==
    IF i > Len(f.ebb_insts[ebb]) THEN NoEbb
    ELSE IF branch_target(f, f.insts[f.ebb_insts[ebb][i]], env) = NoEbb
    THEN execute(f, ebb, i + 1, env_after(f, f.ebb_insts[ebb][i], env), targets)
    ELSE IF branch_target(f, f.insts[f.ebb_insts[ebb][i]], env) \in targets
    THEN branch_target(f, f.insts[f.ebb_insts[ebb][i]], env)
    ELSE execute(f, branch_target(f, f.insts[f.ebb_insts[ebb][i]], env), 1, env, targets)

\* The EBBs the switch was given: the entries' and `otherwise`.
switch_targets == {sw.otherwise} \cup {c[2] : c \in sw.cases}

\* The values a variable of the type can hold at run time, as emit's
\* comparisons see them: an i8 or an i16 zero-extended, a wider one signed.
runtime_values(ty) ==
    IF ty \in {"i8", "i16"}
    THEN 0..(2 ^ type_bits(ty) - 1)
    ELSE (-(2 ^ (type_bits(ty) - 1)))..(2 ^ (type_bits(ty) - 1) - 1)

\* Where the emitted code, entered after the definition of the value
\* switched on, takes control when the value is v.
dispatched(v) == execute(func, 1, 2, 1 :> v, switch_targets)

\* Where the switch is to take control on v.
registered(v) == IF has_entry(sw.cases, v) THEN ebb_of(sw.cases, v) ELSE sw.otherwise

\* Every key is a value of the type compared.
keys_representable ==
    \A c \in sw.cases :
        /\ c[1] >= -(2 ^ (type_bits(value_type(func, sw.val)) - 1))
        /\ c[1] < 2 ^ (type_bits(value_type(func, sw.val)) - 1)

\* C34: for every set of distinct keys and every runtime value v of the
\* (possibly zero-extended) comparison type, the code emitted by
\* Switch::emit transfers control to the EBB registered for key v if v is a
\* key and to `otherwise` if it is not; no value reaches the EBB of another
\* key.
C34_SwitchDispatch ==
    pc = "emitted" => \A v \in runtime_values(func.vals[1].ty) : dispatched(v) = registered(v)

\* emit has written code whose jump table takes a value that is no key to
\* the EBB of a key.
C34_Witness ==
    /\ pc = "emitted"
    /\ func.jump_tables # <<>>
    /\ \E v \in runtime_values(func.vals[1].ty) :
          /\ ~has_entry(sw.cases, v)
          /\ dispatched(v) \in Range(func.jump_tables[1])

\* What holds: the dispatch is right when every key is a value of the type
\* compared.
C34_DispatchOfRepresentableKeys ==
    pc = "emitted" /\ keys_representable
        => \A v \in runtime_values(func.vals[1].ty) : dispatched(v) = registered(v)

\* Such a switch with a run, a split and values on both sides of its keys.
C34_RepresentableWitness ==
    /\ pc = "emitted"
    /\ keys_representable
    /\ func.vals[1].ty = "i32"
    /\ func.jump_tables # <<>>
    /\ Cardinality(insts_of(func, "icmp_imm")) >= 2
    /\ \E v \in runtime_values("i32") : has_entry(sw.cases, v) /\ dispatched(v) = ebb_of(sw.cases, v)

\* The instructions that name a jump table.
TableOpcodes == {"br_table", "jump_table_base", "jump_table_entry", "indirect_jump_table_br"}

references_jump_table(f, inst) ==
    f.insts[inst].opcode \in TableOpcodes \/ f.insts[inst].table # NoTable

\* C35: when legalize_function has cleared function.jump_tables because
\* jump tables are disabled, no instruction in the layout references a jump
\* table: every br_table has been lowered to compare-and-branch and no
\* jump_table_base, jump_table_entry or indirect_jump_table_br was
\* introduced.
C35_NoDanglingJumpTable ==
    pc = "done" /\ ~isa.jump_tables_enabled
        => \A i \in layout_insts(func) : ~references_jump_table(func, i)

\* The tables were cleared after a br_table over two entries or more had
\* left the layout for its compare-and-branch sequence.
C35_Witness ==
    /\ pc = "done"
    /\ ~isa.jump_tables_enabled
    /\ func.jump_tables = <<>>
    /\ \E i \in 1..num_insts(func) :
          /\ func.insts[i].opcode = "br_table"
          /\ i \notin layout_insts(func)
    /\ Cardinality({i \in layout_insts(func) : func.insts[i].opcode = "brnz"
                                                /\ func.insts[i].dest \in {2, 3}}) >= 2

====
